---- MODULE Spec2Model ----
(***************************************************************************)
(* State-machine model of the exercise pipeline of ExerciseDetection:      *)
(*   - the ExerciseSwitchArbiter (handleExerciseSwitch, validateStanding,  *)
(*     runExerciseClassification) of the PoseLandmarker application,       *)
(*   - the RepCounter in its three forms: detectSquat of the Holistic      *)
(*     application, detectSquat of the Pose application (behind            *)
(*     detectPoses) and the inline counter of predictWebcam.               *)
(*                                                                         *)
(* Units.  Landmark coordinates and confidences are integers in            *)
(* hundredths (0.40 is 40, 0.6 is 60); times are integer milliseconds.     *)
(* The mean of a left and a right y is carried doubled, in half            *)
(* hundredths, so that it stays an integer; the baseline startY is the     *)
(* exact fraction calibrationSum / CALIBRATION_FRAMES.                     *)
(***************************************************************************)
EXTENDS Integers, Sequences, FiniteSets, TLC

VARIABLES
    currentExercise,    \* React state currentExercise (null or a class name)
    predictedExercise,  \* React state predictedExercise
    confidence,         \* React state confidence
    switchCounter,      \* switchCounterRef.current
    exerciseCount,      \* React state exerciseCount: the repetition count
    squatState,         \* squatState.current
    currentPose,        \* React state currentPose of the Pose application
    frameCount,         \* frameCount of the onResults callbacks, kept modulo 2
    now,                \* milliseconds since the page was loaded
    variant,            \* which application runs: "holistic", "pose" or "landmarker"
    handler,            \* the handler that ran last ("none" at start)
    lastCall,           \* arguments and standing verdict of the latest handleExerciseSwitch call
    streak,             \* history: the latest run of consecutive qualifying same-label calls
    lastFrame,          \* the landmark frame handed to the latest frame handler call
    script,             \* phase of the scripted hip-Y scenario ("off" outside it)
    vsInput,            \* argument of a validateStanding call
    vsResult,           \* whether the call was made, and its result
    poseSequence,       \* the sequence window: poseSequence.current, or
                        \* keypointsQueue.current of Test2, as frame numbers
    modelLoaded,        \* the TFLite model is loaded (model / tfliteModelRef.current)
    lastPredictionTime, \* window.lastPredictionTime of Test2 (0 while undefined)
    pending,            \* inferences whose output has not resolved yet
    exerciseClass,      \* React state exerciseClass of Test2
    exerciseConfidence, \* React state exerciseConfidence of Test2
    framesSeen,         \* history: frames appended to the window so far
    sinceClear,         \* history: frames appended since the window was last cleared
    predictLog,         \* history: number and latest time of the model.predict calls
    lastOutput,         \* history: the probability vector read by the latest resolution
    fnInput,            \* argument of a pure-function call
    fnResult,           \* whether the call was made, and its result
    loops,              \* predictWebcam loops with a requestAnimationFrame callback pending
    ran,                \* the loops whose callback has run in this animation frame
    webcamRunning,      \* webcamRunningRef.current of Detection
    videoFrame,         \* number of the video frame on display
    renderPending,      \* Test2 has set state and will render again
    starting,           \* Detection's effect has run, its camera is not playing yet
    fault,              \* history: what failed in the latest frame callback
    errorCount          \* errorCountRef.current of Detection

vars == <<currentExercise, predictedExercise, confidence, switchCounter,
          exerciseCount, squatState, currentPose, frameCount, now, variant, handler,
          lastCall, streak, lastFrame, script, vsInput, vsResult,
          poseSequence, modelLoaded, lastPredictionTime, pending, exerciseClass,
          exerciseConfidence, framesSeen, sinceClear, predictLog, lastOutput,
          fnInput, fnResult, loops, ran, webcamRunning, videoFrame,
          renderPending, starting, fault, errorCount>>

arbiterVars == <<currentExercise, predictedExercise, confidence, switchCounter,
                 lastCall, streak>>
squatVars == <<squatState, currentPose, frameCount, now, variant, lastFrame, script>>
standingVars == <<vsInput, vsResult>>
windowVars == <<poseSequence, framesSeen, sinceClear>>
classifierVars == <<modelLoaded, lastPredictionTime, pending, exerciseClass,
                    exerciseConfidence, predictLog, lastOutput>>
functionVars == <<fnInput, fnResult>>
loopVars == <<loops, ran, webcamRunning, videoFrame, renderPending, starting, fault,
              errorCount>>
pipelineVars == <<windowVars, classifierVars, functionVars>>

(***************************************************************************)
(* Constants of the program                                                *)
(***************************************************************************)
Null == "null"

NUM_JOINTS == 33
NUM_CLASSES == 5
CLASS_NAMES == <<"TreePose", "Barbell Biceps Curl", "Lunges", "Push-Up", "Squat">>

\* CLASS_NAMES[predClass] of the code: JavaScript indexes from 0.
ClassName(predClass) == CLASS_NAMES[predClass + 1]

confidenceThreshold == 60
switchFrames == 10
kneeThreshold == 160
hipThreshold == 160

(***************************************************************************)
(* Bounds of the model                                                     *)
(***************************************************************************)
MaxReps == 2

\* Class indices and confidences the classifier is let to return.
ClassInputs == {2, 4}
ConfidenceInputs == {50, 60, 80}

(***************************************************************************)
(* Landmarks                                                               *)
(***************************************************************************)
\* The joints the switch arbiter and the rep counter read.
LEFT_SHOULDER == 11
RIGHT_SHOULDER == 12
LEFT_HIP == 23
RIGHT_HIP == 24
LEFT_KNEE == 25
RIGHT_KNEE == 26
LEFT_ANKLE == 27
RIGHT_ANKLE == 28
Joints == {LEFT_SHOULDER, RIGHT_SHOULDER, LEFT_HIP, RIGHT_HIP,
           LEFT_KNEE, RIGHT_KNEE, LEFT_ANKLE, RIGHT_ANKLE}

Pt(x, y, z, v) == [x |-> x, y |-> y, z |-> z, visibility |-> v]
ZeroPt == Pt(0, 0, 0, 0)

\* A landmark array: its length and the entries at the joints that are read.
Landmarks(len, pts) == [isNull |-> FALSE, length |-> len, pts |-> pts]
NullLandmarks == [isNull |-> TRUE, length |-> 0, pts |-> [j \in Joints |-> ZeroPt]]

\* A body seen from the front or the side: both sides share y, x differs by dx.
Body(sx, sy, hx, hy, kx, ky, ax, ay, dx) ==
    [j \in Joints |->
        CASE j = LEFT_SHOULDER  -> Pt(sx, sy, 0, 90)
          [] j = RIGHT_SHOULDER -> Pt(sx + dx, sy, 0, 90)
          [] j = LEFT_HIP       -> Pt(hx, hy, 0, 90)
          [] j = RIGHT_HIP      -> Pt(hx + dx, hy, 0, 90)
          [] j = LEFT_KNEE      -> Pt(kx, ky, 0, 90)
          [] j = RIGHT_KNEE     -> Pt(kx + dx, ky, 0, 90)
          [] j = LEFT_ANKLE     -> Pt(ax, ay, 0, 90)
          [] j = RIGHT_ANKLE    -> Pt(ax + dx, ay, 0, 90)]

UprightBody == Body(40, 20, 40, 40, 40, 62, 40, 85, 10)  \* legs and trunk straight
SquatBody   == Body(40, 40, 40, 62, 25, 66, 35, 88, 10)  \* knees and hips bent
BowBody     == Body(20, 35, 40, 40, 40, 62, 40, 85, 10)  \* hips bent, knees straight
KneelBody   == Body(40, 20, 40, 40, 40, 62, 20, 62, 10)  \* knees bent, hips straight
ZeroedBody  == [j \in Joints |-> ZeroPt]                   \* every joint a (0,0,0,0) placeholder

(***************************************************************************)
(* validateStanding                                                        *)
(***************************************************************************)
\* computeAngle up to the arccos: the dot product and the squared magnitudes
\* of the two vectors from the middle point p2.
computeAngle(p1, p2, p3) ==
    LET v1 == [x |-> p1.x - p2.x, y |-> p1.y - p2.y, z |-> p1.z - p2.z]
        v2 == [x |-> p3.x - p2.x, y |-> p3.y - p2.y, z |-> p3.z - p2.z]
    IN  [dotProduct |-> v1.x * v2.x + v1.y * v2.y + v1.z * v2.z,
         magSq1 |-> v1.x * v1.x + v1.y * v1.y + v1.z * v1.z,
         magSq2 |-> v2.x * v2.x + v2.y * v2.y + v2.z * v2.z]

\* cos^2 of the 160 degree thresholds as a fraction: cos^2(160) = 0.88302,
\* 15/17 = 0.88235 (the angle 159.94).  The bodies above keep their angles
\* away from that margin, so the fraction decides as acos does.
CosSq160 == <<15, 17>>

\* angle > threshold for the 160 degree thresholds.  mag1 * mag2 = 0 makes
\* cosTheta NaN (0/0), the angle NaN, and every comparison with NaN false.
\* Otherwise acos(clamp(c)) * 180/PI > 160 iff c < cos(160) iff
\* dot < 0 and dot^2 > cos^2(160) * magSq1 * magSq2.
AngleAbove(angle, threshold) ==
    /\ threshold = 160
    /\ angle.magSq1 * angle.magSq2 # 0
    /\ angle.dotProduct < 0
    /\ CosSq160[2] * angle.dotProduct * angle.dotProduct
         > CosSq160[1] * angle.magSq1 * angle.magSq2

StraightAnd(kneesStraight, hipsStraight) == kneesStraight /\ hipsStraight

StraightOr(kneesStraight, hipsStraight) == kneesStraight \/ hipsStraight

validateStanding(landmarks) ==
    IF landmarks.isNull \/ landmarks.length < 29
    THEN TRUE
    ELSE LET p == landmarks.pts
             leftKneeAngle  == computeAngle(p[LEFT_HIP], p[LEFT_KNEE], p[LEFT_ANKLE])
             rightKneeAngle == computeAngle(p[RIGHT_HIP], p[RIGHT_KNEE], p[RIGHT_ANKLE])
             leftHipAngle   == computeAngle(p[LEFT_SHOULDER], p[LEFT_HIP], p[LEFT_KNEE])
             rightHipAngle  == computeAngle(p[RIGHT_SHOULDER], p[RIGHT_HIP], p[RIGHT_KNEE])
             kneesStraight  == AngleAbove(leftKneeAngle, kneeThreshold)
                               /\ AngleAbove(rightKneeAngle, kneeThreshold)
             hipsStraight   == AngleAbove(leftHipAngle, hipThreshold)
                               /\ AngleAbove(rightHipAngle, hipThreshold)
         IN  StraightOr(kneesStraight, hipsStraight)

(***************************************************************************)
(* ExerciseSwitchArbiter: handleExerciseSwitch                             *)
(***************************************************************************)
\* The currentExercise that handleExerciseSwitch reads.  predictWebcam is
\* defined inside useEffect(..., []), which runs once, after the first
\* render; it calls the runExerciseClassification and handleExerciseSwitch
\* of that render, whose currentExercise is the initial state of
\* useState(null).  Later renders make new closures that nothing calls.
closureCurrentExercise == Null

ConfidentOrEqual(conf) == conf >= confidenceThreshold

\* confidence > confidenceThreshold
Confident(conf) == conf > confidenceThreshold

ExceededSwitchFrames(counter) == counter > switchFrames

\* switchCounterRef.current >= switchFrames
ReachedSwitchFrames(counter) == counter >= switchFrames

CountKept(count) == count

\* setExerciseCount(0)
CountAfterSwitch(count) == 0

CounterCleared(counter) == 0

\* the standing branch: it only logs
CounterOnStanding(counter) == counter

CounterKept(counter) == counter

\* the low-confidence branch: switchCounterRef.current = 0
CounterOnLowConfidence(counter) == 0

NoStreak == [label |-> Null, len |-> 0, fromZero |-> FALSE, startExercise |-> Null]

\* History of the calls: how many latest consecutive calls were non-standing,
\* above the confidence threshold and for one label; whether the run began
\* with switchCounter = 0; and the currentExercise it began with.
NextStreak(predClass, conf, standing) ==
    IF ~standing /\ conf > confidenceThreshold
    THEN IF streak.len > 0 /\ streak.label = ClassName(predClass)
         THEN [streak EXCEPT !.len = IF @ > switchFrames THEN @ ELSE @ + 1]
         ELSE [label |-> ClassName(predClass), len |-> 1,
               fromZero |-> (switchCounter = 0),
               startExercise |-> currentExercise]
    ELSE NoStreak

handleExerciseSwitch(predClass, conf, landmarks) ==
    LET standing == validateStanding(landmarks)
    IN  /\ lastCall' = [predClass |-> predClass, confidence |-> conf,
                        landmarks |-> landmarks, standing |-> standing,
                        counterBefore |-> switchCounter,
                        countBefore |-> exerciseCount]
        /\ streak' = NextStreak(predClass, conf, standing)
        /\ IF standing
           THEN /\ switchCounter' = CounterOnStanding(switchCounter)
                /\ UNCHANGED <<currentExercise, predictedExercise, exerciseCount>>
           ELSE IF closureCurrentExercise = Null
                   \/ ClassName(predClass) # closureCurrentExercise
           THEN IF Confident(conf)
                THEN IF ReachedSwitchFrames(switchCounter + 1)
                     THEN /\ currentExercise' = ClassName(predClass)
                          /\ predictedExercise' = ClassName(predClass)
                          /\ exerciseCount' = CountAfterSwitch(exerciseCount)
                          /\ switchCounter' = 0
                     ELSE /\ switchCounter' = switchCounter + 1
                          /\ UNCHANGED <<currentExercise, predictedExercise,
                                         exerciseCount>>
                ELSE /\ switchCounter' = CounterOnLowConfidence(switchCounter)
                     /\ UNCHANGED <<currentExercise, predictedExercise,
                                    exerciseCount>>
           ELSE UNCHANGED <<currentExercise, predictedExercise, exerciseCount,
                            switchCounter>>

\* Landmark frames at the tail of poseSequence when a classification
\* completes: PoseLandmarker frames, 33 landmarks each.
RecentFrames == {Landmarks(NUM_JOINTS, b) : b \in {UprightBody, SquatBody, ZeroedBody}}

\* runExerciseClassification from the point where predict and output.data
\* have resolved: classIdx and conf are read off the output, the standing
\* check uses the last frame of poseSequence.
RunExerciseClassification(classIdx, conf, recentLandmarks) ==
    /\ handler' = "runExerciseClassification"
    /\ handleExerciseSwitch(classIdx, conf, recentLandmarks)
    /\ confidence' = conf
    /\ UNCHANGED squatVars
    /\ UNCHANGED standingVars
    /\ UNCHANGED pipelineVars
    /\ UNCHANGED loopVars

\* The rep counter's effect on the exercise state, setExerciseCount(prev =>
\* prev + 1).  Its guard is the RepCounter's (SpecSquat); here a rep may
\* complete at any time.
RepCompleted ==
    /\ exerciseCount < MaxReps
    /\ handler' = "predictWebcam"
    /\ exerciseCount' = exerciseCount + 1
    /\ UNCHANGED arbiterVars
    /\ UNCHANGED squatVars
    /\ UNCHANGED standingVars
    /\ UNCHANGED pipelineVars
    /\ UNCHANGED loopVars

(***************************************************************************)
(* RepCounter: constants, frames and clock                                 *)
(***************************************************************************)
CALIBRATION_FRAMES == 30
SQUAT_DOWN_THRESHOLD == 20      \* detectSquat: how low to go
SQUAT_UP_THRESHOLD == 10        \* detectSquat: how high to come up
MIN_REP_TIME == 500             \* detectSquat: minimum ms between reps
HIP_TO_KNEE_SPAN == 15          \* properForm: hipToKnee > 0.15
KNEE_TO_ANKLE_SPAN == 10        \* properForm: kneeToAnkle > 0.1
SQUAT_VISIBILITY_THRESHOLD == 30   \* detectSquat of the Pose application
POSE_VISIBILITY_THRESHOLD == 70    \* detectPoses: the four pose detectors
SETTINGS_THRESHOLD == 15        \* SQUAT_SETTINGS.THRESHOLD of predictWebcam
SETTINGS_MIN_REP_TIME == 1000   \* SQUAT_SETTINGS.MIN_REP_TIME of predictWebcam

LEFT_ELBOW == 13
RIGHT_ELBOW == 14
LEFT_WRIST == 15
RIGHT_WRIST == 16
ArmJoints == {LEFT_ELBOW, RIGHT_ELBOW, LEFT_WRIST, RIGHT_WRIST}
PoseJoints == Joints \cup ArmJoints

\* Length of one clock step and the number of steps the clock is let to make.
TickMs == 500
MaxTicks == 4

\* Date.now() at the moment the page was loaded.  The real value is about
\* 1.7 * 10^12; what the code depends on is that it exceeds MIN_REP_TIME.
PageLoadEpoch == 1000000

DateNow == PageLoadEpoch + now

\* performance.now(): milliseconds since the page was loaded
PerformanceNow == now

Abs(n) == IF n < 0 THEN -n ELSE n

\* (a + b) / 2 doubled: the mean in half hundredths
Mean2(a, b) == a + b

\* The baseline: calibrationSum / CALIBRATION_FRAMES as a fraction of half
\* hundredths.  null before the calibration completes.
NullStartY == [isNull |-> TRUE, num |-> 0, den |-> 1]

StartYOfLast(sum, frames, hipY) == [isNull |-> FALSE, num |-> hipY, den |-> 1]

StartY(sum, frames, hipY) == [isNull |-> FALSE, num |-> sum, den |-> CALIBRATION_FRAMES]

\* hipY - startY as a fraction of half hundredths
Drop(hipY, startY) == [num |-> hipY * startY.den - startY.num, den |-> startY.den]

\* drop > t and drop < t for a threshold t given in half hundredths
Exceeds(drop, t) == drop.num > t * drop.den

NotAbove(drop, t) == drop.num <= t * drop.den

Below(drop, t) == drop.num < t * drop.den

\* The body with arms: hanging, or raised above the head.
WithArms(body, raised) ==
    [j \in PoseJoints |->
        IF j \in Joints THEN body[j]
        ELSE LET s == IF j \in {LEFT_ELBOW, LEFT_WRIST}
                      THEN body[LEFT_SHOULDER] ELSE body[RIGHT_SHOULDER]
                 far == j \in {LEFT_WRIST, RIGHT_WRIST}
             IN  IF raised
                 THEN Pt(s.x, s.y - (IF far THEN 25 ELSE 12), 0, 90)
                 ELSE Pt(s.x, s.y + (IF far THEN 25 ELSE 12), 0, 90)]

\* The body with its hips at different heights left and right.
Tilted(body, leftY, rightY) ==
    [body EXCEPT ![LEFT_HIP].y = leftY, ![RIGHT_HIP].y = rightY]

\* The body with the right knee barely visible.
Dim(body) == [body EXCEPT ![RIGHT_KNEE].visibility = 20]

(***************************************************************************)
(* RepCounter: detectSquat (Holistic and Pose applications)                *)
(***************************************************************************)
RequiredPoints == {LEFT_HIP, RIGHT_HIP, LEFT_KNEE, RIGHT_KNEE, LEFT_ANKLE, RIGHT_ANKLE}

\* !leftHip || !rightHip || ... : an index past the end of the array reads
\* undefined.
RequiredPresent(results) == \A j \in RequiredPoints : j < results.length

\* point && point.visibility && point.visibility > VISIBILITY_THRESHOLD
RequiredVisible(results) ==
    \A j \in RequiredPoints :
        /\ j < results.length
        /\ results.pts[j].visibility # 0
        /\ results.pts[j].visibility > SQUAT_VISIBILITY_THRESHOLD

hipY(results) == Mean2(results.pts[LEFT_HIP].y, results.pts[RIGHT_HIP].y)
kneeY(results) == Mean2(results.pts[LEFT_KNEE].y, results.pts[RIGHT_KNEE].y)
ankleY(results) == Mean2(results.pts[LEFT_ANKLE].y, results.pts[RIGHT_ANKLE].y)

\* hipToKnee > 0.15 && kneeToAnkle > 0.1
properForm(results) ==
    /\ Abs(hipY(results) - kneeY(results)) > 2 * HIP_TO_KNEE_SPAN
    /\ Abs(kneeY(results) - ankleY(results)) > 2 * KNEE_TO_ANKLE_SPAN

hipDropAmount(results) == Drop(hipY(results), squatState.startY)

\* The calibration phase: one more sample; the quota ends the phase.
Calibrate(sample) ==
    LET sum == squatState.calibrationSum + sample
        frames == squatState.calibrationFrames + 1
    IN  IF frames >= CALIBRATION_FRAMES
        THEN [squatState EXCEPT !.calibrationSum = sum,
                                !.calibrationFrames = frames,
                                !.startY = StartY(sum, frames, sample),
                                !.isCalibrating = FALSE]
        ELSE [squatState EXCEPT !.calibrationSum = sum,
                                !.calibrationFrames = frames]

IntervalReached(elapsed, minimum) == elapsed >= minimum

\* timeSinceLastSquat > MIN_REP_TIME
IntervalElapsed(elapsed, minimum) == elapsed > minimum

InSquatKept(inSquat) == inSquat

\* squatState.current.isInSquat = false on a completed rep
InSquatAfterRep(inSquat) == FALSE

\* detectSquat; checkVisibility tells the Pose application's form, which
\* demands visibility of the required points, from the Holistic one's.
detectSquat(results, checkVisibility) ==
    IF \/ results.isNull
       \/ ~checkVisibility /\ ~RequiredPresent(results)
       \/ checkVisibility /\ ~RequiredVisible(results)
    THEN UNCHANGED <<squatState, exerciseCount>>
    ELSE IF squatState.isCalibrating
    THEN /\ squatState' = Calibrate(hipY(results))
         /\ UNCHANGED exerciseCount
    ELSE LET timeSinceLastSquat == DateNow - squatState.lastSquatTime
         IN  IF /\ ~squatState.isInSquat
                /\ Exceeds(hipDropAmount(results), 2 * SQUAT_DOWN_THRESHOLD)
                /\ properForm(results)
             THEN /\ squatState' = [squatState EXCEPT !.isInSquat = TRUE]
                  /\ UNCHANGED exerciseCount
             ELSE IF /\ squatState.isInSquat
                     /\ Below(hipDropAmount(results), 2 * SQUAT_UP_THRESHOLD)
                     /\ IntervalElapsed(timeSinceLastSquat, MIN_REP_TIME)
             THEN /\ squatState' =
                        [squatState EXCEPT !.isInSquat = InSquatAfterRep(@),
                                           !.lastSquatTime = DateNow]
                  /\ exerciseCount' = exerciseCount + 1
             ELSE UNCHANGED <<squatState, exerciseCount>>

\* holistic.onResults: every second frame reaches detectSquat.
HolisticOnResults(results) ==
    /\ variant = "holistic"
    /\ exerciseCount < MaxReps
    /\ handler' = "holistic.onResults"
    /\ lastFrame' = results
    /\ frameCount' = (frameCount + 1) % 2
    /\ IF frameCount' # 0
       THEN UNCHANGED <<squatState, exerciseCount>>
       ELSE detectSquat(results, FALSE)
    /\ UNCHANGED <<currentPose, now, variant, script>>
    /\ UNCHANGED arbiterVars
    /\ UNCHANGED standingVars
    /\ UNCHANGED pipelineVars
    /\ UNCHANGED loopVars

(***************************************************************************)
(* RepCounter behind detectPoses (Pose application)                        *)
(***************************************************************************)
AllVisible(results, points) ==
    \A j \in points : results.pts[j].visibility > POSE_VISIBILITY_THRESHOLD

detectTPose(results) ==
    LET p == results.pts
    IN  /\ AllVisible(results, {LEFT_SHOULDER, RIGHT_SHOULDER, LEFT_ELBOW,
                                RIGHT_ELBOW, LEFT_WRIST, RIGHT_WRIST})
        /\ Abs(p[LEFT_WRIST].y - p[LEFT_SHOULDER].y) < 10
        /\ Abs(p[RIGHT_WRIST].y - p[RIGHT_SHOULDER].y) < 10
        /\ Abs(p[LEFT_WRIST].x - p[LEFT_SHOULDER].x) > 30
        /\ Abs(p[RIGHT_WRIST].x - p[RIGHT_SHOULDER].x) > 30

detectTreePose(results) ==
    LET p == results.pts
    IN  /\ AllVisible(results, RequiredPoints)
        /\ \/ Abs(p[LEFT_ANKLE].y - p[RIGHT_KNEE].y) < 10
           \/ Abs(p[RIGHT_ANKLE].y - p[LEFT_KNEE].y) < 10

detectWarriorPose(results) ==
    LET p == results.pts
    IN  /\ AllVisible(results, RequiredPoints)
        /\ Abs(p[LEFT_ANKLE].x - p[RIGHT_ANKLE].x) > 40
        /\ \/ Abs(p[LEFT_KNEE].y - p[LEFT_ANKLE].y) > 20
           \/ Abs(p[RIGHT_KNEE].y - p[RIGHT_ANKLE].y) > 20

detectHandsUp(results) ==
    LET p == results.pts
    IN  /\ AllVisible(results, {LEFT_SHOULDER, RIGHT_SHOULDER, LEFT_WRIST, RIGHT_WRIST})
        /\ p[LEFT_WRIST].y < p[LEFT_SHOULDER].y - 20
        /\ p[RIGHT_WRIST].y < p[RIGHT_SHOULDER].y - 20

\* detectPoses: the first detector that returns true ends the function;
\* detectSquat runs last and returns nothing.  Without poseLandmarks the
\* function returns undefined.
detectPoses(results) ==
    IF results.isNull
    THEN currentPose' = "undefined" /\ UNCHANGED <<squatState, exerciseCount>>
    ELSE IF detectTPose(results)
    THEN currentPose' = "T-Pose" /\ UNCHANGED <<squatState, exerciseCount>>
    ELSE IF detectTreePose(results)
    THEN currentPose' = "Tree Pose" /\ UNCHANGED <<squatState, exerciseCount>>
    ELSE IF detectWarriorPose(results)
    THEN currentPose' = "Warrior Pose" /\ UNCHANGED <<squatState, exerciseCount>>
    ELSE IF detectHandsUp(results)
    THEN currentPose' = "Hands Up" /\ UNCHANGED <<squatState, exerciseCount>>
    ELSE currentPose' = "No pose detected" /\ detectSquat(results, TRUE)

\* pose.onResults: every second frame reaches detectPoses.
PoseOnResults(results) ==
    /\ variant = "pose"
    /\ exerciseCount < MaxReps
    /\ handler' = "pose.onResults"
    /\ lastFrame' = results
    /\ frameCount' = (frameCount + 1) % 2
    /\ IF frameCount' # 0
       THEN UNCHANGED <<squatState, exerciseCount, currentPose>>
       ELSE detectPoses(results)
    /\ UNCHANGED <<now, variant, script>>
    /\ UNCHANGED arbiterVars
    /\ UNCHANGED standingVars
    /\ UNCHANGED pipelineVars
    /\ UNCHANGED loopVars

(***************************************************************************)
(* RepCounter inside predictWebcam (PoseLandmarker application)            *)
(***************************************************************************)
\* The squat part of predictWebcam for a result with landmarks.
\* deltaY < THRESHOLD / 2 is 2 * deltaY < THRESHOLD.
SquatPart(results) ==
    IF squatState.isCalibrating
    THEN /\ squatState' = Calibrate(hipY(results))
         /\ UNCHANGED exerciseCount
    ELSE LET deltaY == Drop(hipY(results), squatState.startY)
         IN  IF ~squatState.isInSquat /\ Exceeds(deltaY, 2 * SETTINGS_THRESHOLD)
             THEN /\ squatState' = [squatState EXCEPT !.isInSquat = TRUE]
                  /\ UNCHANGED exerciseCount
             ELSE IF /\ squatState.isInSquat
                     /\ Below(deltaY, SETTINGS_THRESHOLD)
                     /\ IntervalElapsed(PerformanceNow - squatState.lastSquatTime,
                                        SETTINGS_MIN_REP_TIME)
             THEN /\ squatState' =
                        [squatState EXCEPT !.isInSquat = InSquatAfterRep(@),
                                           !.lastSquatTime = PerformanceNow]
                  /\ exerciseCount' = exerciseCount + 1
             ELSE UNCHANGED <<squatState, exerciseCount>>

\* predictWebcam as the rep counter sees it.
PredictWebcam(results) ==
    /\ variant = "landmarker"
    /\ exerciseCount < MaxReps
    /\ handler' = "predictWebcam"
    /\ lastFrame' = results
    /\ IF results.isNull
       THEN UNCHANGED <<squatState, exerciseCount>>
       ELSE SquatPart(results)
    /\ UNCHANGED <<currentPose, frameCount, now, variant, script>>
    /\ UNCHANGED arbiterVars
    /\ UNCHANGED standingVars
    /\ UNCHANGED pipelineVars
    /\ UNCHANGED loopVars

\* Time passes between two callbacks.
Tick ==
    /\ now < MaxTicks * TickMs
    /\ now' = now + TickMs
    /\ handler' = "clock"
    /\ UNCHANGED <<squatState, currentPose, frameCount, variant, lastFrame, script,
                   exerciseCount>>
    /\ UNCHANGED arbiterVars
    /\ UNCHANGED standingVars
    /\ UNCHANGED pipelineVars
    /\ UNCHANGED loopVars

(***************************************************************************)
(* Sequence window and classifier: constants and functions                 *)
(***************************************************************************)
MAX_SEQUENCE_LENGTH == 50       \* Test2: capacity of keypointsQueue
T == 100                        \* PoseLandmarker applications: sequence length
THROTTLE_MS == 200              \* Test2: now - window.lastPredictionTime < 200
SESSION_CONFIDENCE == 40        \* Test2: confidence > 0.4
exerciseNames == <<"TreePose", "Lunges", "Push-Up", "Squat">>
APP_CLASS_NAMES == <<"TreePose", "Lunges", "Push-Up", "Squat">>

\* The steady time between two frame callbacks; the frames a session is
\* followed for beyond those that fill the window; the predict calls it is
\* followed for.
FrameMs == 50
ExtraFrames == 4
MaxPredicts == 3

\* N: the sequence length of the classifier of the running application.
SequenceLength == IF variant = "baseline" THEN MAX_SEQUENCE_LENGTH ELSE T

\* The length beyond which the window drops its head: App.jsx keeps T * 2.
Capacity == IF variant = "app" THEN T * 2 ELSE SequenceLength

DropLast(seq) == SubSeq(seq, 1, Len(seq) - 1)

\* Array.prototype.shift: the head goes
Shift(seq) == Tail(seq)

\* push, then shift when the length exceeds the capacity
Pushed(seq, keypoints, capacity) ==
    LET longer == Append(seq, keypoints)
    IN  IF Len(longer) > capacity THEN Shift(longer) ELSE longer

MaxOf(array) == CHOOSE m \in {array[i] : i \in 1..Len(array)} :
                    \A i \in 1..Len(array) : array[i] <= m

LastIndexOf(array, value) ==
    (CHOOSE i \in 1..Len(array) :
        array[i] = value /\ \A j \in (i + 1)..Len(array) : array[j] # value) - 1

\* Array.prototype.indexOf, counting from 0: the first index holding value
IndexOf(array, value) ==
    (CHOOSE i \in 1..Len(array) :
        array[i] = value /\ \A j \in 1..(i - 1) : array[j] # value) - 1

\* array.indexOf(Math.max(...array))
argMax(array) == IndexOf(array, MaxOf(array))

\* array[i] of the code: JavaScript indexes from 0
At(array, i) == array[i + 1]

\* exerciseNames[predClass] || `Exercise ${predClass}`
ExerciseName(predClass) ==
    IF predClass < Len(exerciseNames) THEN At(exerciseNames, predClass) ELSE "Exercise n"

ShownFrom(conf) == conf >= SESSION_CONFIDENCE

\* confidence > 0.4
Shown(conf) == conf > SESSION_CONFIDENCE

\* Probability vectors the models are let to return, in hundredths.
Outputs4 == {<<10, 20, 30, 40>>, <<5, 45, 45, 5>>, <<70, 10, 10, 10>>}
Outputs5 == {<<5, 5, 10, 10, 70>>, <<20, 20, 20, 20, 20>>, <<0, 30, 60, 5, 5>>}

\* The body frame number f shows.
FramePose(f) == IF f % 3 = 0 THEN UprightBody ELSE SquatBody

\* The frames a session is followed for: enough to fill the window up to
\* its capacity (in Test2 a second time, after a clear) and a few more.
MaxFrames ==
    Capacity + (IF variant = "baseline" THEN MAX_SEQUENCE_LENGTH ELSE 0) + ExtraFrames

\* Frame callbacks: the time since the callback before, and whether the
\* result has landmarks.  Results without landmarks come before the first
\* frame is kept; frames come at the steady rate, and once the model is
\* loaded and the window about to be full also a throttle interval apart.
FrameCallbacks ==
    IF framesSeen = 0 /\ now = 0
    THEN {<<FrameMs, TRUE>>, <<FrameMs, FALSE>>}
    ELSE IF ~modelLoaded \/ Len(poseSequence) + 1 < SequenceLength
    THEN {<<FrameMs, TRUE>>}
    ELSE {<<FrameMs, TRUE>>, <<THROTTLE_MS, TRUE>>}

\* An inference in flight: when predict was called and on which window.
Inference(seq, at) == [at |-> at, first |-> Head(seq), last |-> seq[Len(seq)],
                       length |-> Len(seq)]

(***************************************************************************)
(* Sequence window and classifier: Test2 with the Detection component      *)
(***************************************************************************)
repCounterVars == <<squatState, currentPose, frameCount, lastFrame, script, exerciseCount>>

\* model.predict(inputTensor): the inference is in flight until its
\* output.data() resolves.
Predict(queue, at) ==
    /\ pending' = Append(pending, Inference(queue, at))
    /\ predictLog' = [count |-> predictLog.count + 1, last |-> at]

ModelAssumed(loaded) == TRUE

\* !model is false, tfliteModelRef.current is set
ModelReady(loaded) == loaded

\* prepareInputAndInvoke up to model.predict; clock is its Date.now().
prepareInputAndInvoke(queue, clock) ==
    IF ~ModelReady(modelLoaded)
    THEN UNCHANGED <<lastPredictionTime, pending, predictLog>>
    ELSE IF lastPredictionTime # 0 /\ clock - lastPredictionTime < THROTTLE_MS
    THEN UNCHANGED <<lastPredictionTime, pending, predictLog>>
    ELSE /\ lastPredictionTime' = clock
         /\ IF Len(queue) # MAX_SEQUENCE_LENGTH
            THEN UNCHANGED <<pending, predictLog>>
            ELSE Predict(queue, clock - PageLoadEpoch)

\* onPoseLandmarksReceived for a result with landmarks: updateSequence,
\* then prepareInputAndInvoke once the queue holds 50 frames.
LandmarksReceived(keypoints, clock) ==
    LET queue == Pushed(poseSequence, keypoints, MAX_SEQUENCE_LENGTH)
    IN  /\ poseSequence' = queue
        /\ framesSeen' = framesSeen + 1
        /\ sinceClear' = sinceClear + 1
        /\ IF Len(queue) = MAX_SEQUENCE_LENGTH
           THEN prepareInputAndInvoke(queue, clock)
           ELSE UNCHANGED <<lastPredictionTime, pending, predictLog>>

\* onPoseLandmarksReceived, called by Detection's predictWebcam gap
\* milliseconds after the callback before; the frame is kept by its number.
OnPoseLandmarksReceived(gap, hasLandmarks) ==
    /\ variant = "baseline"
    /\ framesSeen < MaxFrames
    /\ predictLog.count < MaxPredicts
    /\ now' = now + gap
    /\ handler' = "onPoseLandmarksReceived"
    /\ IF ~hasLandmarks
       THEN UNCHANGED <<windowVars, lastPredictionTime, pending, predictLog>>
       ELSE LandmarksReceived(framesSeen + 1, PageLoadEpoch + now + gap)
    /\ UNCHANGED <<modelLoaded, exerciseClass, exerciseConfidence, lastOutput, variant>>
    /\ UNCHANGED <<arbiterVars, repCounterVars, standingVars, functionVars>>
    /\ UNCHANGED loopVars

\* handleExerciseSession
handleExerciseSession(exercise, conf) ==
    /\ exerciseClass' = exercise
    /\ exerciseConfidence' = conf

\* The callback of output.data().then in prepareInputAndInvoke.
InferenceResolved(outputData) ==
    /\ variant = "baseline"
    /\ pending # <<>>
    /\ handler' = "output.data.then"
    /\ LET predClass == argMax(outputData)
           conf == At(outputData, predClass)
       IN  IF Shown(conf)
           THEN handleExerciseSession(ExerciseName(predClass), conf)
           ELSE UNCHANGED <<exerciseClass, exerciseConfidence>>
    /\ lastOutput' = outputData
    /\ poseSequence' = <<>>
    /\ sinceClear' = 0
    /\ pending' = Tail(pending)
    /\ UNCHANGED <<framesSeen, modelLoaded, lastPredictionTime, predictLog, now, variant>>
    /\ UNCHANGED <<arbiterVars, repCounterVars, standingVars, functionVars>>
    /\ UNCHANGED loopVars

\* The input of App.jsx's runExerciseClassification: a constant tensor of
\* 50 frames, whatever poseSequence holds.
DummyInput == [i \in 1..MAX_SEQUENCE_LENGTH |-> 0]

\* loadTFLiteModel resolves: the model is there from now on.  App.jsx
\* runs runExerciseClassification right after storing the model.
ModelLoads ==
    /\ ~modelLoaded
    /\ modelLoaded' = TRUE
    /\ handler' = "loadTFLiteModel"
    /\ IF variant = "app"
       THEN Predict(DummyInput, now)
       ELSE UNCHANGED <<pending, predictLog>>
    /\ UNCHANGED <<windowVars, lastPredictionTime, exerciseClass,
                   exerciseConfidence, lastOutput, now, variant>>
    /\ UNCHANGED <<arbiterVars, repCounterVars, standingVars, functionVars>>
    /\ UNCHANGED loopVars

(***************************************************************************)
(* Sequence window and classifier: the PoseLandmarker applications         *)
(***************************************************************************)
\* The window part of predictWebcam (src/unnamed/part_001): push, shift,
\* and runExerciseClassification up to its await.  The squat part of the
\* same handler is SquatPart; the two share no state.
WindowPart(keypoints, clock) ==
    LET sequence == Pushed(poseSequence, keypoints, T)
    IN  /\ poseSequence' = sequence
        /\ framesSeen' = framesSeen + 1
        /\ sinceClear' = sinceClear + 1
        /\ IF /\ Len(sequence) = T /\ ModelReady(modelLoaded)
              /\ ~(~ModelReady(modelLoaded) \/ Len(sequence) < T)
           THEN Predict(sequence, clock)
           ELSE UNCHANGED <<pending, predictLog>>

\* predictWebcam as the window and the classifier see it.
PredictWebcamWindow(gap, hasLandmarks) ==
    /\ variant = "landmarker"
    /\ framesSeen < MaxFrames
    /\ predictLog.count < MaxPredicts
    /\ now' = now + gap
    /\ handler' = "predictWebcam"
    /\ IF ~hasLandmarks
       THEN UNCHANGED <<windowVars, pending, predictLog>>
       ELSE WindowPart(framesSeen + 1, now + gap)
    /\ UNCHANGED <<modelLoaded, lastPredictionTime, exerciseClass, exerciseConfidence,
                   lastOutput, variant>>
    /\ UNCHANGED <<arbiterVars, repCounterVars, standingVars, functionVars>>
    /\ UNCHANGED loopVars

\* runExerciseClassification after its awaits: the output is read, the
\* standing check takes the frame that is last in poseSequence by now.
ClassificationResolved(values) ==
    /\ variant = "landmarker"
    /\ pending # <<>>
    /\ handler' = "runExerciseClassification"
    /\ LET classIdx == argMax(values)
           conf == At(values, classIdx)
           recentLandmarks == poseSequence[Len(poseSequence)]
       IN  /\ handleExerciseSwitch(classIdx, conf,
                                   Landmarks(NUM_JOINTS, FramePose(recentLandmarks)))
           /\ confidence' = conf
    /\ lastOutput' = values
    /\ pending' = Tail(pending)
    /\ UNCHANGED <<windowVars, modelLoaded, lastPredictionTime, exerciseClass,
                   exerciseConfidence, predictLog, now, variant>>
    /\ UNCHANGED <<squatState, currentPose, frameCount, lastFrame, script>>
    /\ UNCHANGED <<standingVars, functionVars>>
    /\ UNCHANGED loopVars

\* The closure's modelDebugInfo.processedFrames of App.jsx: predictWebcam
\* is defined in useEffect(..., []) and nothing updates the field.
processedFrames == 0

\* predictWebcam of App.jsx with runExerciseClassification up to its await.
AppPredictWebcam(gap, hasLandmarks) ==
    /\ variant = "app"
    /\ framesSeen < MaxFrames
    /\ predictLog.count < MaxPredicts
    /\ now' = now + gap
    /\ handler' = "predictWebcam"
    /\ IF ~hasLandmarks
       THEN UNCHANGED <<windowVars, pending, predictLog>>
       ELSE LET keypoints == framesSeen + 1
                sequence == Pushed(poseSequence, keypoints, T * 2)
            IN  /\ poseSequence' = sequence
                /\ framesSeen' = framesSeen + 1
                /\ sinceClear' = sinceClear + 1
                /\ IF /\ Len(sequence) >= T /\ ModelReady(modelLoaded)
                      /\ processedFrames % 5 = 0
                   THEN Predict(DummyInput, now + gap)
                   ELSE UNCHANGED <<pending, predictLog>>
    /\ UNCHANGED <<modelLoaded, lastPredictionTime, exerciseClass, exerciseConfidence,
                   lastOutput, variant>>
    /\ UNCHANGED <<arbiterVars, repCounterVars, standingVars, functionVars>>
    /\ UNCHANGED loopVars

\* runExerciseClassification of App.jsx after its await.
AppClassificationResolved(outputData) ==
    /\ variant = "app"
    /\ pending # <<>>
    /\ handler' = "runExerciseClassification"
    /\ LET maxIdx == argMax(outputData)
       IN  /\ predictedExercise' = At(APP_CLASS_NAMES, maxIdx)
           /\ confidence' = At(outputData, maxIdx)
    /\ lastOutput' = outputData
    /\ pending' = Tail(pending)
    /\ UNCHANGED <<windowVars, modelLoaded, lastPredictionTime, exerciseClass,
                   exerciseConfidence, predictLog, now, variant>>
    /\ UNCHANGED <<currentExercise, switchCounter, lastCall, streak>>
    /\ UNCHANGED <<repCounterVars, standingVars, functionVars>>
    /\ UNCHANGED loopVars

(***************************************************************************)
(* Initial state                                                           *)
(***************************************************************************)
NoCall == [predClass |-> 0, confidence |-> 0, landmarks |-> NullLandmarks,
           standing |-> TRUE, counterBefore |-> 0, countBefore |-> 0]

InitSquatState ==
    [startY |-> NullStartY, isInSquat |-> FALSE, lastSquatTime |-> 0,
     calibrationFrames |-> 0, calibrationSum |-> 0, isCalibrating |-> TRUE]

InitExercise ==
    /\ currentExercise = Null
    /\ predictedExercise = "No exercise detected"
    /\ confidence = 0
    /\ switchCounter = 0
    /\ exerciseCount = 0
    /\ handler = "none"
    /\ lastCall = NoCall
    /\ streak = NoStreak

InitSquat ==
    /\ squatState = InitSquatState
    /\ currentPose = "No pose detected"
    /\ frameCount = 0
    /\ now = 0
    /\ variant = "landmarker"
    /\ lastFrame = NullLandmarks
    /\ script = "off"

NotValidated == [done |-> FALSE, standing |-> FALSE]

InitStanding ==
    /\ vsInput = NullLandmarks
    /\ vsResult = NotValidated

NoPredict == [count |-> 0, last |-> 0]

NotApplied == [done |-> FALSE, value |-> <<>>]

InitWindow ==
    /\ poseSequence = <<>>
    /\ framesSeen = 0
    /\ sinceClear = 0

InitClassifier ==
    /\ modelLoaded = FALSE
    /\ lastPredictionTime = 0
    /\ pending = <<>>
    /\ exerciseClass = Null
    /\ exerciseConfidence = 0
    /\ predictLog = NoPredict
    /\ lastOutput = <<>>

InitFunction ==
    /\ fnInput = <<>>
    /\ fnResult = NotApplied

InitPipeline == InitWindow /\ InitClassifier /\ InitFunction

\* Mounted: the effect has run, no camera and no loop yet.
InitLoop ==
    /\ loops = {}
    /\ ran = {}
    /\ webcamRunning = FALSE
    /\ videoFrame = 0
    /\ renderPending = FALSE
    /\ starting = TRUE
    /\ fault = "none"
    /\ errorCount = 0

Init == InitExercise /\ InitSquat /\ InitStanding /\ InitPipeline /\ InitLoop

Next ==
    \/ \E classIdx \in ClassInputs, conf \in ConfidenceInputs, lm \in RecentFrames :
           RunExerciseClassification(classIdx, conf, lm)
    \/ RepCompleted

Spec == Init /\ [][Next]_vars

(***************************************************************************)
(* RepCounter under any frames (specification SpecSquat)                   *)
(***************************************************************************)
LowBody   == Body(40, 42, 40, 62, 40, 80, 40, 92, 10)  \* hips 0.62, knees and ankles in form
EdgeBody  == Body(40, 40, 40, 60, 40, 80, 40, 92, 10)  \* hips 0.60, in form
RiseBody  == Body(40, 25, 40, 45, 40, 64, 40, 86, 10)  \* hips 0.45
HalfBody  == Body(40, 30, 40, 50, 40, 70, 40, 90, 10)  \* hips 0.50
TiltBody  == Tilted(UprightBody, 38, 42)               \* hips 0.38 and 0.42

Frame(body) == Landmarks(NUM_JOINTS, WithArms(body, FALSE))

\* Frames while the counter calibrates: standing, tilted, or already low.
CalibrationFrameInputs ==
    {Frame(b) : b \in {UprightBody, TiltBody, LowBody}}
    \cup {NullLandmarks, Frame(Dim(UprightBody))}

\* Frames after the calibration.
WorkoutFrameInputs ==
    {Frame(b) : b \in {UprightBody, LowBody, SquatBody, EdgeBody, RiseBody, HalfBody}}
    \cup {NullLandmarks, Frame(Dim(LowBody)),
          Landmarks(NUM_JOINTS, WithArms(LowBody, TRUE))}

\* An array that ends before the knees.
ShortFrame == Landmarks(LEFT_KNEE, WithArms(UprightBody, FALSE))

FrameInputs ==
    IF squatState.isCalibrating THEN CalibrationFrameInputs ELSE WorkoutFrameInputs

InitRepCounter ==
    /\ InitExercise
    /\ squatState = InitSquatState
    /\ currentPose = "No pose detected"
    /\ frameCount = 0
    /\ now = 0
    /\ variant \in {"holistic", "pose", "landmarker"}
    /\ lastFrame = NullLandmarks
    /\ script = "off"
    /\ InitStanding
    /\ InitPipeline
    /\ InitLoop

NextSquat ==
    \/ \E results \in FrameInputs \cup {ShortFrame} : HolisticOnResults(results)
    \/ \E results \in FrameInputs : PoseOnResults(results)
    \/ \E results \in FrameInputs : PredictWebcam(results)
    \/ Tick

SpecSquat == InitRepCounter /\ [][NextSquat]_vars

(***************************************************************************)
(* RepCounter under the scripted hip-Y sequence (specification             *)
(* SpecScenario): calibration at hip Y 0.40, down to 0.62 or 0.65 in form, *)
(* up to 0.45 or 0.42, a dip of at most 0.20, up again                     *)
(***************************************************************************)
DeepBody    == Body(40, 45, 40, 65, 40, 82, 40, 94, 10)  \* hips 0.65, in form
ReturnBody  == Body(40, 22, 40, 42, 40, 63, 40, 85, 10)  \* hips 0.42
DipBody     == Body(40, 35, 40, 55, 40, 75, 40, 90, 10)  \* hips 0.55, in form

PhaseFrames(phase) ==
    CASE phase = "calibrate" -> {Frame(UprightBody), Frame(TiltBody)}
      [] phase = "down"      -> {Frame(LowBody), Frame(DeepBody)}
      [] phase = "up"        -> {Frame(RiseBody), Frame(ReturnBody)}
      [] phase = "dip"       -> {Frame(HalfBody), Frame(DipBody), Frame(EdgeBody)}
      [] phase = "rise"      -> {Frame(RiseBody), Frame(ReturnBody)}
      [] OTHER               -> {}

NextPhase(phase) ==
    CASE phase = "calibrate" -> "down"
      [] phase = "down"      -> "up"
      [] phase = "up"        -> "dip"
      [] phase = "dip"       -> "rise"
      [] OTHER               -> phase

\* The latest frame belongs to the phase and went through the counter.
PhaseCounted ==
    /\ lastFrame \in PhaseFrames(script)
    /\ frameCount = 0

\* The sequence moves on to its next phase once the counter has taken a
\* frame of the present one, and the calibration only once it is complete.
Advance ==
    /\ script \in {"calibrate", "down", "up", "dip"}
    /\ PhaseCounted
    /\ script = "calibrate" => ~squatState.isCalibrating
    /\ script' = NextPhase(script)
    /\ handler' = "script"
    /\ UNCHANGED <<squatState, currentPose, frameCount, now, variant, lastFrame,
                   exerciseCount>>
    /\ UNCHANGED arbiterVars
    /\ UNCHANGED standingVars
    /\ UNCHANGED pipelineVars
    /\ UNCHANGED loopVars

InitScenario ==
    /\ InitExercise
    /\ squatState = InitSquatState
    /\ currentPose = "No pose detected"
    /\ frameCount = 0
    /\ now = 0
    /\ variant \in {"holistic", "pose"}
    /\ lastFrame = NullLandmarks
    /\ script = "calibrate"
    /\ InitStanding
    /\ InitPipeline
    /\ InitLoop

NextScenario ==
    \/ \E results \in PhaseFrames(script) : HolisticOnResults(results)
    \/ \E results \in PhaseFrames(script) : PoseOnResults(results)
    \/ Advance
    \/ Tick

SpecScenario == InitScenario /\ [][NextScenario]_vars

(***************************************************************************)
(* The pipeline from frame to label (specification SpecPipeline)           *)
(***************************************************************************)
InitPipelineRun ==
    /\ InitExercise
    /\ squatState = InitSquatState
    /\ currentPose = "No pose detected"
    /\ frameCount = 0
    /\ now = 0
    /\ variant \in {"baseline", "landmarker", "app"}
    /\ lastFrame = NullLandmarks
    /\ script = "off"
    /\ InitStanding
    /\ InitPipeline
    /\ InitLoop

NextPipeline ==
    \/ \E cb \in FrameCallbacks : OnPoseLandmarksReceived(cb[1], cb[2])
    \/ \E outputData \in Outputs4 : InferenceResolved(outputData)
    \/ \E cb \in FrameCallbacks : PredictWebcamWindow(cb[1], cb[2])
    \/ \E values \in Outputs5 : ClassificationResolved(values)
    \/ \E cb \in FrameCallbacks : AppPredictWebcam(cb[1], cb[2])
    \/ \E outputData \in Outputs4 : AppClassificationResolved(outputData)
    \/ ModelLoads

SpecPipeline == InitPipelineRun /\ [][NextPipeline]_vars

(***************************************************************************)
(* Claims about the ExerciseSwitchArbiter (specification Spec)             *)
(***************************************************************************)
\* The step is a runExerciseClassification that reached handleExerciseSwitch;
\* lastCall' holds the call's arguments and its standing verdict.
SwitchCall == handler' = "runExerciseClassification"

CalledLabel == ClassName(lastCall'.predClass)

\* C1: starting from switchCounter = 0, nine consecutive non-standing calls
\* with one candidate label other than currentExercise and confidence 0.8
\* leave currentExercise as it was, and the tenth such call sets
\* currentExercise to the candidate label.
C1_TenthCallSwitches ==
    (streak.fromZero /\ streak.label # streak.startExercise) =>
        /\ streak.len \in 1..(switchFrames - 1)
               => currentExercise = streak.startExercise
        /\ streak.len = switchFrames => currentExercise = streak.label

\* A tenth consecutive qualifying call has just moved a locked exercise to
\* the candidate label.
C1_Witness ==
    /\ handler = "runExerciseClassification"
    /\ streak.fromZero
    /\ streak.len = switchFrames
    /\ streak.startExercise # Null
    /\ streak.label # streak.startExercise
    /\ lastCall.confidence = 80
    /\ currentExercise = streak.label

\* C2: a non-standing call whose label equals currentExercise changes
\* nothing: currentExercise, switchCounter and repCount keep their values.
C2_SameLabelChangesNothing ==
    [][(SwitchCall /\ ~lastCall'.standing /\ CalledLabel = currentExercise)
          => UNCHANGED <<currentExercise, switchCounter, exerciseCount>>]_vars

\* C3: a call whose standing check is true changes no state, and a
\* qualifying call that follows a standing call at switchCounter =
\* switchFrames - 1 still commits the switch.
C3_StandingChangesNothing ==
    [][SwitchCall =>
          /\ lastCall'.standing
                => UNCHANGED <<currentExercise, switchCounter, exerciseCount>>
          /\ (/\ handler = "runExerciseClassification"
              /\ lastCall.standing
              /\ ~lastCall'.standing
              /\ lastCall'.confidence > confidenceThreshold
              /\ CalledLabel # currentExercise
              /\ switchCounter = switchFrames - 1)
                => (currentExercise' = CalledLabel /\ switchCounter' = 0)]_vars

\* A standing call arrived with nine qualifying calls counted and left the
\* counter at nine.
C3_Witness ==
    /\ handler = "runExerciseClassification"
    /\ lastCall.standing
    /\ lastCall.counterBefore = switchFrames - 1
    /\ switchCounter = switchFrames - 1

\* C4: a switch to label X is committed only after switchFrames consecutive
\* calls that were all non-standing, above the confidence threshold and for
\* label X.
C4_CommitNeedsConsistentRun ==
    [][currentExercise' # currentExercise
          => (streak'.label = currentExercise' /\ streak'.len >= switchFrames)]_vars

\* C5: the call on which switchCounter reaches switchFrames sets
\* currentExercise to the candidate label, repCount to 0 and switchCounter
\* to 0.
C5_CommitResets ==
    [][(/\ SwitchCall
        /\ ~lastCall'.standing
        /\ lastCall'.confidence > confidenceThreshold
        /\ CalledLabel # currentExercise
        /\ switchCounter + 1 = switchFrames)
          => (/\ currentExercise' = CalledLabel
              /\ exerciseCount' = 0
              /\ switchCounter' = 0)]_vars

\* A commit has just reset a repetition count that was not 0.
C5_Witness ==
    /\ handler = "runExerciseClassification"
    /\ ~lastCall.standing
    /\ lastCall.confidence > confidenceThreshold
    /\ lastCall.counterBefore = switchFrames - 1
    /\ lastCall.countBefore > 0
    /\ currentExercise = ClassName(lastCall.predClass)
    /\ exerciseCount = 0
    /\ switchCounter = 0

\* C6: a non-standing call for a label other than currentExercise with
\* confidence at or below confidenceThreshold resets switchCounter to 0 and
\* leaves currentExercise and repCount unchanged.
C6_LowConfidenceResets ==
    [][(/\ SwitchCall
        /\ ~lastCall'.standing
        /\ CalledLabel # currentExercise
        /\ lastCall'.confidence <= confidenceThreshold)
          => (/\ switchCounter' = 0
              /\ UNCHANGED <<currentExercise, exerciseCount>>)]_vars

\* A call with confidence exactly at the threshold has just reset a counter
\* that was in progress, with a repetition count to keep.
C6_Witness ==
    /\ handler = "runExerciseClassification"
    /\ ~lastCall.standing
    /\ lastCall.confidence = confidenceThreshold
    /\ ClassName(lastCall.predClass) # currentExercise
    /\ lastCall.counterBefore > 0
    /\ switchCounter = 0
    /\ exerciseCount > 0

(***************************************************************************)
(* validateStanding as a function of its argument (specification           *)
(* SpecStanding)                                                           *)
(***************************************************************************)
CollapsedBody == Body(40, 20, 40, 40, 40, 40, 40, 40, 10)  \* knees and ankles reported on the hips

Bodies == {UprightBody, SquatBody, BowBody, KneelBody, CollapsedBody}

\* The body with the joints of Z replaced by the (0,0,0,0) placeholder.
ZeroJoints(body, Z) == [j \in Joints |-> IF j \in Z THEN ZeroPt ELSE body[j]]

\* Arguments of validateStanding: null, arrays too short to hold the right
\* ankle (index 28), and full arrays with any set of joints zeroed.
StandingInputs ==
    {NullLandmarks}
    \cup {Landmarks(len, b) : len \in {0, RIGHT_ANKLE}, b \in Bodies}
    \cup {Landmarks(len, ZeroJoints(b, Z)) :
              len \in {RIGHT_ANKLE + 1, NUM_JOINTS}, b \in Bodies, Z \in SUBSET Joints}

ValidateStandingCall ==
    /\ ~vsResult.done
    /\ handler' = "validateStanding"
    /\ vsResult' = [done |-> TRUE, standing |-> validateStanding(vsInput)]
    /\ UNCHANGED <<vsInput, exerciseCount>>
    /\ UNCHANGED arbiterVars
    /\ UNCHANGED squatVars
    /\ UNCHANGED pipelineVars
    /\ UNCHANGED loopVars

InitStandingCall ==
    /\ InitExercise
    /\ InitSquat
    /\ vsInput \in StandingInputs
    /\ vsResult = NotValidated
    /\ InitPipeline
    /\ InitLoop

NextStanding == ValidateStandingCall

SpecStanding == InitStandingCall /\ [][NextStanding]_vars

\* The triples of joints whose angles validateStanding computes.
AngleTriples ==
    {<<LEFT_HIP, LEFT_KNEE, LEFT_ANKLE>>, <<RIGHT_HIP, RIGHT_KNEE, RIGHT_ANKLE>>,
     <<LEFT_SHOULDER, LEFT_HIP, LEFT_KNEE>>, <<RIGHT_SHOULDER, RIGHT_HIP, RIGHT_KNEE>>}

SamePlace(p, q) == p.x = q.x /\ p.y = q.y /\ p.z = q.z

\* A landmark needed for the knee or hip angles is missing: the array is
\* null or too short to hold it, or it is a zeroed placeholder, or it
\* coincides with the middle joint of its angle.
MissingRequired(landmarks) ==
    \/ landmarks.isNull
    \/ landmarks.length <= RIGHT_ANKLE
    \/ \E j \in Joints : landmarks.pts[j] = ZeroPt
    \/ \E t \in AngleTriples :
           \/ SamePlace(landmarks.pts[t[1]], landmarks.pts[t[2]])
           \/ SamePlace(landmarks.pts[t[3]], landmarks.pts[t[2]])

\* C7: validateStanding returns true whenever a landmark needed for the knee
\* or hip angles is missing, be it absent from the array or present only as
\* a zeroed or coincident placeholder.
C7_MissingLandmarkIsStanding ==
    (vsResult.done /\ MissingRequired(vsInput)) => vsResult.standing

\* What the code does hold to: null and short arrays are standing.
AbsentLandmarkIsStanding ==
    (vsResult.done /\ (vsInput.isNull \/ vsInput.length <= RIGHT_ANKLE))
        => vsResult.standing

\* The bodies are judged as the code's angles judge them.
BodiesJudged ==
    vsResult.done =>
        /\ vsInput = Landmarks(NUM_JOINTS, UprightBody) => vsResult.standing
        /\ vsInput = Landmarks(NUM_JOINTS, BowBody) => vsResult.standing
        /\ vsInput = Landmarks(NUM_JOINTS, KneelBody) => vsResult.standing
        /\ vsInput = Landmarks(NUM_JOINTS, SquatBody) => ~vsResult.standing
        /\ vsInput = Landmarks(NUM_JOINTS, ZeroedBody) => ~vsResult.standing
        /\ vsInput = Landmarks(NUM_JOINTS, CollapsedBody) => ~vsResult.standing

(***************************************************************************)
(* Claims about the RepCounter (specifications SpecScenario and SpecSquat) *)
(***************************************************************************)
\* C8: after calibration to baseline 0.40, frames with a drop above the
\* down-threshold 0.2 and the form check passing, followed by frames with a
\* drop below the up-threshold 0.1, increment the rep count exactly once:
\* the count is 0 until the first counted frame of the return, 1 from then
\* on, and stays 1 through a following dip that does not exceed the
\* down-threshold and the rise after it.
C8_OneRepPerCycle ==
    /\ script \in {"calibrate", "down"} => exerciseCount = 0
    /\ script = "down" =>
           squatState.startY.num = Mean2(40, 40) * squatState.startY.den
    /\ (script = "down" /\ PhaseCounted) => squatState.isInSquat
    /\ script = "up" =>
           /\ exerciseCount = (IF squatState.isInSquat THEN 0 ELSE 1)
           /\ PhaseCounted => exerciseCount = 1
    /\ script \in {"dip", "rise"} => (exerciseCount = 1 /\ ~squatState.isInSquat)

\* The whole sequence has gone through the counter: one rep, and the counter
\* is back in Standing after the rise that follows the shallow dip.
C8_Witness ==
    /\ script = "rise"
    /\ PhaseCounted
    /\ exerciseCount = 1
    /\ ~squatState.isInSquat
    /\ squatState.lastSquatTime > PageLoadEpoch

\* The step is a frame callback of the running application.
FrameStep == handler' \in {"holistic.onResults", "pose.onResults", "predictWebcam"}

\* The callback's frame reaches the counter's code: it is not dropped by the
\* every-second-frame gate, carries the landmarks the application asks for,
\* and in the Pose application no earlier detector claims it.
Accepted(results) ==
    CASE variant = "holistic" ->
             frameCount' = 0 /\ ~results.isNull /\ RequiredPresent(results)
      [] variant = "pose" ->
             /\ frameCount' = 0 /\ ~results.isNull
             /\ ~detectTPose(results) /\ ~detectTreePose(results)
             /\ ~detectWarriorPose(results) /\ ~detectHandsUp(results)
             /\ RequiredVisible(results)
      [] OTHER -> ~results.isNull

\* C9: while the counter calibrates, an accepted frame adds its hip Y (the
\* mean of the left and right hip y) to the sum and one to the count, and no
\* frame changes the rep count or enters a rep; on the 30th accepted frame
\* the baseline becomes sum / count and the counter is in Standing; before
\* that it stays calibrating without a baseline.  Thirty samples of 0.40 give
\* the baseline 0.40.
C9_CalibrationAccumulates ==
    [][(FrameStep /\ squatState.isCalibrating) =>
          /\ exerciseCount' = exerciseCount
          /\ ~squatState'.isInSquat
          /\ squatState'.lastSquatTime = squatState.lastSquatTime
          /\ IF Accepted(lastFrame')
             THEN /\ squatState'.calibrationSum =
                        squatState.calibrationSum
                        + Mean2(lastFrame'.pts[LEFT_HIP].y, lastFrame'.pts[RIGHT_HIP].y)
                  /\ squatState'.calibrationFrames = squatState.calibrationFrames + 1
             ELSE squatState' = squatState
          /\ IF squatState'.calibrationFrames = 30
             THEN /\ ~squatState'.isCalibrating
                  /\ ~squatState'.startY.isNull
                  /\ squatState'.startY.num * squatState'.calibrationFrames
                       = squatState'.calibrationSum * squatState'.startY.den
                  /\ squatState'.calibrationSum = 30 * Mean2(40, 40)
                       => squatState'.startY.num = Mean2(40, 40) * squatState'.startY.den
             ELSE /\ squatState'.isCalibrating
                  /\ squatState'.startY = NullStartY]_vars

\* Thirty frames at hip Y 0.40, the last with hips at 0.38 and 0.42, have
\* completed the calibration with baseline 0.40 (sums and baseline are in
\* half hundredths, as Mean2 gives them).
C9_Witness ==
    /\ handler \in {"holistic.onResults", "pose.onResults", "predictWebcam"}
    /\ lastFrame = Frame(TiltBody)
    /\ ~squatState.isCalibrating
    /\ ~squatState.isInSquat
    /\ squatState.calibrationFrames = 30
    /\ squatState.calibrationSum = 30 * Mean2(40, 40)
    /\ squatState.startY.num = Mean2(40, 40) * squatState.startY.den
    /\ exerciseCount = 0

\* The down-threshold of the running application.
DownThreshold == IF variant = "landmarker" THEN SETTINGS_THRESHOLD ELSE SQUAT_DOWN_THRESHOLD

\* C10: the counter moves from Standing to InRep only on a frame whose hip
\* drop (hipY - baseline) is strictly greater than the down-threshold and
\* whose form check passes: hip-to-knee and knee-to-ankle vertical
\* separations both above their minimum spans.
C10_EnterNeedsDropAndForm ==
    [][(FrameStep /\ ~squatState.isCalibrating
            /\ ~squatState.isInSquat /\ squatState'.isInSquat) =>
          /\ Exceeds(Drop(Mean2(lastFrame'.pts[LEFT_HIP].y, lastFrame'.pts[RIGHT_HIP].y),
                          squatState.startY),
                     2 * DownThreshold)
          /\ properForm(lastFrame')]_vars

\* The up-threshold (in half hundredths), the minimum interval and the clock
\* of the running application.
UpThreshold2 == IF variant = "landmarker" THEN SETTINGS_THRESHOLD ELSE 2 * SQUAT_UP_THRESHOLD
MinInterval == IF variant = "landmarker" THEN SETTINGS_MIN_REP_TIME ELSE MIN_REP_TIME
Clock == IF variant = "landmarker" THEN PerformanceNow ELSE DateNow

\* hipY - baseline of the step's frame is less than t half hundredths.
FrameDropUnder(t) ==
    LET d == Drop(Mean2(lastFrame'.pts[LEFT_HIP].y, lastFrame'.pts[RIGHT_HIP].y),
                  squatState.startY)
    IN  d.num < t * d.den

\* C11: the counter leaves InRep only on a frame whose hip drop is below the
\* up-threshold (itself below the down-threshold) while more than the
\* minimum interval has passed since the last completed rep; that step adds
\* one to the rep count and stores the time as lastSquatTime; no other step
\* changes the rep count.
C11_ExitCountsOneRep ==
    [][/\ (squatState.isInSquat /\ ~squatState'.isInSquat) =>
              /\ FrameStep
              /\ ~lastFrame'.isNull
              /\ FrameDropUnder(UpThreshold2)
              /\ UpThreshold2 < 2 * DownThreshold
              /\ Clock - squatState.lastSquatTime > MinInterval
              /\ exerciseCount' = exerciseCount + 1
              /\ squatState'.lastSquatTime = Clock
       /\ exerciseCount' # exerciseCount =>
              (squatState.isInSquat /\ ~squatState'.isInSquat)
       /\ squatState'.lastSquatTime # squatState.lastSquatTime =>
              (squatState.isInSquat /\ ~squatState'.isInSquat)]_vars

\* A second rep has just been completed, a minimum interval after the first.
C11_Witness ==
    /\ handler \in {"holistic.onResults", "pose.onResults"}
    /\ lastFrame = Frame(RiseBody)
    /\ exerciseCount = 2
    /\ ~squatState.isInSquat
    /\ squatState.lastSquatTime = DateNow

\* One of the six required landmarks of the frame is absent or not visible
\* enough (visibility not above 0.3).
RequiredMissing(results) ==
    /\ ~results.isNull
    /\ \E j \in RequiredPoints :
           \/ j >= results.length
           \/ results.pts[j].visibility <= SQUAT_VISIBILITY_THRESHOLD

\* C12: a frame in which one of the six required landmarks is absent or not
\* visible enough is skipped by the counter: calibration sum and count,
\* baseline, Standing/InRep state, lastSquatTime and rep count are unchanged.
C12_MissingLandmarkSkipsFrame ==
    [][(FrameStep /\ RequiredMissing(lastFrame')) =>
          (squatState' = squatState /\ exerciseCount' = exerciseCount)]_vars

\* What the code holds to: the Pose application skips such frames, and the
\* Holistic application skips frames whose required landmarks are absent.
MissingSkippedWhereChecked ==
    [][(FrameStep /\ RequiredMissing(lastFrame')
          /\ (variant = "pose" \/ (variant = "holistic" /\ ~RequiredPresent(lastFrame')))) =>
          (squatState' = squatState /\ exerciseCount' = exerciseCount)]_vars

\* The callback's frame is processed (the every-second-frame gate lets it
\* through) and carries the six landmarks the counter requires.
Processed(results) ==
    /\ variant = "landmarker" \/ frameCount' = 0
    /\ ~results.isNull
    /\ ~RequiredMissing(results)

\* The counter's step on a frame, as the running application codes it.
CounterStep(results) ==
    CASE variant = "holistic" -> detectSquat(results, FALSE)
      [] variant = "pose" -> detectSquat(results, TRUE)
      [] OTHER -> SquatPart(results)

\* C23: the rep counter runs independently of the pose and exercise
\* classification: on every processed frame that has the required landmarks
\* the counter's step is executed, whatever pose (T-Pose, Tree Pose, Warrior
\* Pose, Hands Up) is detected in the frame.
C23_CounterRunsOnEveryFrame ==
    [][(FrameStep /\ Processed(lastFrame')) => CounterStep(lastFrame')]_vars

\* What the code holds to: the step is executed unless, in the Pose
\* application, an earlier detector of detectPoses claims the frame.
CounterRunsUnlessPoseClaimsFrame ==
    [][(FrameStep /\ Processed(lastFrame') /\ Accepted(lastFrame')) =>
          CounterStep(lastFrame')]_vars

\* A low frame with raised arms was shown as "Hands Up" and the counter,
\* past its calibration, did not enter the rep.
PoseSuppressedCounter ==
    /\ variant = "pose"
    /\ currentPose = "Hands Up"
    /\ ~squatState.isCalibrating
    /\ ~squatState.isInSquat
    /\ lastFrame = Landmarks(NUM_JOINTS, WithArms(LowBody, TRUE))

(***************************************************************************)
(* Claims about the sequence window and the classifier (SpecPipeline)      *)
(***************************************************************************)
Min(a, b) == IF a < b THEN a ELSE b

\* A frame handler of the window has just run.
WindowFrameStep == handler' \in {"onPoseLandmarksReceived", "predictWebcam"}

\* A model.predict call is made in this step.
PredictCalled == predictLog'.count = predictLog.count + 1

\* C13: the sequence window never holds more than N frames, N being the
\* classifier's sequence length: its length is always in 0..N.
C13_WindowWithinSequenceLength == Len(poseSequence) \in 0..SequenceLength

\* The bound that does hold for every pipeline: the capacity of its window.
WindowWithinCapacity == Len(poseSequence) \in 0..Capacity

\* C14: in the baseline and the PoseLandmarker pipeline, k appends after
\* the latest clear leave exactly the most recent min(k, N) frames in the
\* window, in arrival order; after N+1 appends the head is the 2nd of them.
C14_WindowHoldsMostRecent ==
    variant \in {"baseline", "landmarker"} =>
        LET k == sinceClear
            n == Min(k, SequenceLength)
        IN  /\ Len(poseSequence) = n
            /\ \A i \in 1..n : poseSequence[i] = framesSeen - n + i
            /\ k = SequenceLength + 1 => Head(poseSequence) = framesSeen - k + 2

C14_Witness ==
    /\ variant = "baseline"
    /\ sinceClear = SequenceLength + 1
    /\ framesSeen > sinceClear
    /\ Head(poseSequence) = framesSeen - SequenceLength + 1

\* C15: any two model.predict calls are at least 200 ms apart; a request
\* less than 200 ms after the call before runs no inference.
C15_InvocationsThrottled ==
    [][PredictCalled /\ predictLog.count > 0
          => predictLog'.last - predictLog.last >= THROTTLE_MS]_vars

\* The throttle where the code has one: the baseline pipeline.
BaselineThrottled ==
    [][variant = "baseline" /\ PredictCalled /\ predictLog.count > 0
          => predictLog'.last - predictLog.last >= THROTTLE_MS]_vars

\* The window after the step is the window before, or the frame of this
\* step appended to it (the oldest frame leaving a full window).
AppendedAtMost ==
    \/ poseSequence' = poseSequence
    \/ /\ poseSequence' # <<>>
       /\ poseSequence'[Len(poseSequence')] = framesSeen'
       /\ \A i \in 1..(Len(poseSequence') - 1) :
             poseSequence'[i] = framesSeen' - Len(poseSequence') + i

PredictOnlyWhenReady ==
    PredictCalled =>
        /\ Len(poseSequence') = SequenceLength
        /\ modelLoaded
        /\ pending'[Len(pending')].length = SequenceLength

RefusedAttemptChangesNothing ==
    Len(poseSequence') # SequenceLength \/ ~modelLoaded =>
        /\ ~PredictCalled
        /\ pending' = pending
        /\ lastPredictionTime' = lastPredictionTime
        /\ exerciseClass' = exerciseClass
        /\ exerciseConfidence' = exerciseConfidence
        /\ currentExercise' = currentExercise
        /\ predictedExercise' = predictedExercise
        /\ confidence' = confidence
        /\ AppendedAtMost

\* C16: in the baseline and the PoseLandmarker pipeline model.predict is
\* called only with a window of exactly N frames and a loaded model; a
\* frame whose attempt finds either one false changes the window by its
\* append alone and leaves lastPredictionTime, label and confidence alone.
C16_AttemptNeedsFullWindowAndModel ==
    [][WindowFrameStep /\ variant \in {"baseline", "landmarker"}
          => PredictOnlyWhenReady /\ RefusedAttemptChangesNothing]_vars

C16_Witness ==
    /\ variant = "baseline"
    /\ handler = "onPoseLandmarksReceived"
    /\ ~modelLoaded
    /\ Len(poseSequence) = SequenceLength
    /\ sinceClear > SequenceLength
    /\ predictLog.count = 0
    /\ lastPredictionTime = 0

ResultShownIfConfident ==
    LET conf == MaxOf(lastOutput')
    IN  IF conf > SESSION_CONFIDENCE
        THEN exerciseConfidence' = conf
        ELSE /\ exerciseClass' = exerciseClass
             /\ exerciseConfidence' = exerciseConfidence

\* C17: the baseline pipeline takes label and confidence from a result
\* only when its confidence is strictly above 0.4; a result at or below
\* 0.4 leaves both as they were.
C17_OnlyConfidentResultShown ==
    [][variant = "baseline" /\ handler' = "output.data.then" /\ pending # <<>>
          => ResultShownIfConfident]_vars

C17_Witness ==
    /\ variant = "baseline"
    /\ handler = "output.data.then"
    /\ MaxOf(lastOutput) = SESSION_CONFIDENCE
    /\ exerciseClass = "Lunges"
    /\ exerciseConfidence = 45

\* i is the lowest position of the greatest entry of vector.
FirstMaximum(vector, i) ==
    /\ \A j \in 1..Len(vector) : vector[j] <= vector[i]
    /\ \A j \in 1..(i - 1) : vector[j] < vector[i]

\* C18: classIndex is the index of the greatest entry of the probability
\* vector, the lowest one on ties, confidence is the entry there, and the
\* label is the class name at classIndex.
C18_ArgMaxPicksFirstMaximum ==
    /\ variant = "baseline" /\ handler = "output.data.then"
          /\ MaxOf(lastOutput) > SESSION_CONFIDENCE
       => \E i \in 1..Len(lastOutput) :
             /\ FirstMaximum(lastOutput, i)
             /\ exerciseConfidence = lastOutput[i]
             /\ exerciseClass = exerciseNames[i]
    /\ variant = "landmarker" /\ handler = "runExerciseClassification"
       => \E i \in 1..Len(lastOutput) :
             /\ FirstMaximum(lastOutput, i)
             /\ lastCall.predClass = i - 1
             /\ lastCall.confidence = lastOutput[i]
             /\ confidence = lastOutput[i]

C18_Witness ==
    /\ variant = "baseline"
    /\ handler = "output.data.then"
    /\ lastOutput = <<5, 45, 45, 5>>
    /\ exerciseClass = "Lunges"
    /\ exerciseConfidence = 45

(***************************************************************************)
(* Frame normalizer: convertLandmarksToVector4 (Test2.jsx) and the         *)
(* completeSet mapping of Detection's predictWebcam                        *)
(***************************************************************************)
LANDMARK_COUNT == 33            \* new Array(33), Array(33).fill()
CONVERT_VISIBILITY == 30        \* Test2: visibility > 0.3
COMPLETE_SET_VISIBILITY == 50   \* Detection: landmark.visibility > 0.5
MaxLandmarks == 40              \* longest input array
Patterns == 6                   \* ways of laying the entry kinds over an input

\* An entry of the input that is undefined or null.
NoLandmark == [isNull |-> TRUE]

\* v || 0 for a number v
OrZero(v) == IF v = 0 THEN 0 ELSE v

\* landmarks[i] of JavaScript, i counted from 0: undefined past the end
Entry(landmarks, i) == IF i < Len(landmarks) THEN landmarks[i + 1] ELSE NoLandmark

VisibleFrom(visibility, threshold) == visibility >= threshold

\* visibility > 0.3, landmark.visibility > 0.5
VisibleEnough(visibility, threshold) == visibility > threshold

\* The second loop of convertLandmarksToVector4 from index i on.
RECURSIVE ConvertFrom(_, _, _)
ConvertFrom(keypoints, landmarks, i) ==
    IF ~(i < LANDMARK_COUNT)
    THEN keypoints
    ELSE LET lm == Entry(landmarks, i)
         IN  IF lm # NoLandmark
             THEN LET visibility == OrZero(lm.visibility)
                  IN  IF VisibleEnough(visibility, CONVERT_VISIBILITY)
                      THEN ConvertFrom([keypoints EXCEPT ![i + 1] =
                                           Pt(OrZero(lm.x), OrZero(lm.y), OrZero(lm.z),
                                              visibility)],
                                       landmarks, i + 1)
                      ELSE ConvertFrom(keypoints, landmarks, i + 1)
             ELSE ConvertFrom(keypoints, landmarks, i + 1)

\* convertLandmarksToVector4: 33 zero entries, then the loop.
convertLandmarksToVector4(landmarks) ==
    ConvertFrom([i \in 1..LANDMARK_COUNT |-> ZeroPt], landmarks, 0)

\* The loop of the completeSet mapping from index i on.
RECURSIVE CompleteFrom(_, _, _)
CompleteFrom(set, landmarks, i) ==
    IF ~(i < Len(landmarks) /\ i < LANDMARK_COUNT)
    THEN set
    ELSE LET landmark == landmarks[i + 1]
         IN  IF landmark # NoLandmark
                /\ VisibleEnough(landmark.visibility, COMPLETE_SET_VISIBILITY)
             THEN CompleteFrom([set EXCEPT ![i + 1] =
                                   Pt(OrZero(landmark.x), OrZero(landmark.y),
                                      OrZero(landmark.z), landmark.visibility)],
                               landmarks, i + 1)
             ELSE CompleteFrom(set, landmarks, i + 1)

completeSet(landmarks) ==
    CompleteFrom([i \in 1..LANDMARK_COUNT |-> ZeroPt], landmarks, 0)

\* Input arrays: every length up to MaxLandmarks, the entries running
\* through well visible, exactly 0.3, missing, exactly 0.5, 0.4 and 0.2.
InputEntry(i, p) ==
    LET kind == (i + p) % Patterns
    IN  CASE kind = 0 -> Pt(i, 100 - i, 0 - i, 90)
          [] kind = 1 -> Pt(i, 100 - i, 0 - i, CONVERT_VISIBILITY)
          [] kind = 2 -> NoLandmark
          [] kind = 3 -> Pt(i, 100 - i, 0 - i, COMPLETE_SET_VISIBILITY)
          [] kind = 4 -> Pt(i, 100 - i, 0 - i, 40)
          [] OTHER    -> Pt(i, 100 - i, 0 - i, 20)

LandmarkInputs ==
    {[i \in 1..n |-> InputEntry(i, p)] : n \in 0..MaxLandmarks, p \in 0..(Patterns - 1)}

ConvertCall ==
    /\ ~fnResult.done
    /\ fnResult' = [done |-> TRUE, value |-> convertLandmarksToVector4(fnInput)]
    /\ handler' = "convertLandmarksToVector4"
    /\ UNCHANGED <<currentExercise, predictedExercise, confidence, switchCounter,
                   exerciseCount, lastCall, streak, fnInput>>
    /\ UNCHANGED <<squatVars, standingVars, windowVars, classifierVars>>
    /\ UNCHANGED loopVars

CompleteSetCall ==
    /\ ~fnResult.done
    /\ fnResult' = [done |-> TRUE, value |-> completeSet(fnInput)]
    /\ handler' = "completeSet"
    /\ UNCHANGED <<currentExercise, predictedExercise, confidence, switchCounter,
                   exerciseCount, lastCall, streak, fnInput>>
    /\ UNCHANGED <<squatVars, standingVars, windowVars, classifierVars>>
    /\ UNCHANGED loopVars

InitNormalizer ==
    /\ InitExercise
    /\ InitSquat
    /\ InitStanding
    /\ InitWindow
    /\ InitClassifier
    /\ fnInput \in LandmarkInputs
    /\ fnResult = NotApplied
    /\ InitLoop

NextNormalizer == ConvertCall \/ CompleteSetCall

SpecNormalizer == InitNormalizer /\ [][NextNormalizer]_vars

\* The visibility threshold of the normalizer that has run.
NormalizerThreshold ==
    IF handler = "completeSet" THEN COMPLETE_SET_VISIBILITY ELSE CONVERT_VISIBILITY

\* Input landmark i (from 1) exists and is visible above the threshold.
Kept(i) ==
    /\ i <= Len(fnInput)
    /\ fnInput[i] # NoLandmark
    /\ fnInput[i].visibility > NormalizerThreshold

\* C19: for every input of 0 to 40 entries both normalizers return exactly
\* 33 entries; entry i is the input landmark's (x, y, z, visibility) when
\* that landmark exists and its visibility is strictly above the threshold,
\* and (0, 0, 0, 0) otherwise, also at and past the end of the input.
C19_NormalizedFrameHas33Entries ==
    fnResult.done /\ handler \in {"convertLandmarksToVector4", "completeSet"} =>
        /\ Len(fnResult.value) = 33
        /\ \A i \in 1..33 :
              fnResult.value[i] = (IF Kept(i) THEN fnInput[i] ELSE ZeroPt)

\* A 40-entry input went through convertLandmarksToVector4: one entry was
\* copied, one at exactly 0.3 and a missing one came out as zeros.
C19_Witness ==
    /\ fnResult.done
    /\ handler = "convertLandmarksToVector4"
    /\ Len(fnInput) = MaxLandmarks
    /\ Len(fnResult.value) = 33
    /\ fnInput[1].visibility = CONVERT_VISIBILITY /\ fnResult.value[1] = ZeroPt
    /\ fnInput[2] = NoLandmark /\ fnResult.value[2] = ZeroPt
    /\ fnInput[4].visibility = 40 /\ fnResult.value[4] = fnInput[4]

(***************************************************************************)
(* Feature assembler: preprocessKeypoints (part_001, App.jsx) and          *)
(* prepareModelInput (App.jsx), frames kept by their arrival number        *)
(***************************************************************************)
\* Array(NUM_JOINTS).fill().map(() => [0, 0, 0, 0]): no frame has number 0
ZeroFrame == 0

\* Array(n).fill().map(...) of zero frames
Padding(n) == [i \in 1..n |-> ZeroFrame]

\* sequence.slice(-n) for n > 0
SliceLast(sequence, n) ==
    IF Len(sequence) <= n
    THEN sequence
    ELSE SubSeq(sequence, Len(sequence) - n + 1, Len(sequence))

\* What an assembler hands back: null, or the frames of its tensor.
NoTensor == [isNull |-> TRUE, frames |-> <<>>]
Tensor(frames) == [isNull |-> FALSE, frames |-> frames]

\* preprocessKeypoints up to tf.tensor; the angles that part_001 adds
\* widen each joint's vector and leave the frames as they are.
preprocessKeypoints(sequence) ==
    IF Len(sequence) < T
    THEN Tensor(sequence \o Padding(T - Len(sequence)))
    ELSE Tensor(SliceLast(sequence, T))

\* prepareModelInput: formattedFrames holds one entry per frameIdx < T.
prepareModelInput(sequenceIn) ==
    IF Len(sequenceIn) = 0
    THEN NoTensor
    ELSE LET sequence ==
                 IF Len(sequenceIn) > T
                 THEN SliceLast(sequenceIn, T)
                 ELSE IF Len(sequenceIn) < T
                 THEN sequenceIn \o Padding(T - Len(sequenceIn))
                 ELSE sequenceIn
         IN  Tensor([frameIdx \in 1..T |-> sequence[frameIdx]])

\* Windows of every length up to the largest one kept (App.jsx: T * 2),
\* frames numbered in arrival order.
WindowInputs == {[i \in 1..n |-> i] : n \in 0..(T * 2)}

PreprocessCall ==
    /\ ~fnResult.done
    /\ fnResult' = [done |-> TRUE, value |-> preprocessKeypoints(fnInput)]
    /\ handler' = "preprocessKeypoints"
    /\ UNCHANGED <<currentExercise, predictedExercise, confidence, switchCounter,
                   exerciseCount, lastCall, streak, fnInput>>
    /\ UNCHANGED <<squatVars, standingVars, windowVars, classifierVars>>
    /\ UNCHANGED loopVars

PrepareModelInputCall ==
    /\ ~fnResult.done
    /\ fnResult' = [done |-> TRUE, value |-> prepareModelInput(fnInput)]
    /\ handler' = "prepareModelInput"
    /\ UNCHANGED <<currentExercise, predictedExercise, confidence, switchCounter,
                   exerciseCount, lastCall, streak, fnInput>>
    /\ UNCHANGED <<squatVars, standingVars, windowVars, classifierVars>>
    /\ UNCHANGED loopVars

InitAssembler ==
    /\ InitExercise
    /\ InitSquat
    /\ InitStanding
    /\ InitWindow
    /\ InitClassifier
    /\ fnInput \in WindowInputs
    /\ fnResult = NotApplied
    /\ InitLoop

NextAssembler == PreprocessCall \/ PrepareModelInputCall

SpecAssembler == InitAssembler /\ [][NextAssembler]_vars

AssemblerApplied ==
    fnResult.done /\ handler \in {"preprocessKeypoints", "prepareModelInput"}

\* The result is N frames: the window and zero frames after it when the
\* window is shorter than N, else the last N frames of the window.
AssembledToN ==
    LET n == Len(fnInput)
        frames == fnResult.value.frames
    IN  /\ ~fnResult.value.isNull
        /\ Len(frames) = T
        /\ IF n < T
           THEN /\ \A i \in 1..n : frames[i] = fnInput[i]
                /\ \A i \in (n + 1)..T : frames[i] = ZeroFrame
           ELSE \A i \in 1..T : frames[i] = fnInput[n - T + i]

\* C20: the assembler always yields exactly N frames: a shorter window is
\* followed by zero frames up to N, a longer one is cut to its most recent
\* N frames, and the frames keep their arrival order.
C20_AssemblerYieldsNFrames == AssemblerApplied => AssembledToN

\* What holds of the code: N frames from every window but the empty one
\* given to prepareModelInput.
AssembledUnlessEmpty ==
    AssemblerApplied /\ ~(handler = "prepareModelInput" /\ Len(fnInput) = 0)
        => AssembledToN

EmptyWindowGivesNoTensor ==
    AssemblerApplied /\ handler = "prepareModelInput" /\ Len(fnInput) = 0
        => fnResult.value = NoTensor

(***************************************************************************)
(* Joint angles: computeJointAngles of Test2.jsx and of App.jsx.  A frame  *)
(* is the array of 33 keypoints, kept as a sequence of points.             *)
(***************************************************************************)
\* frame[j] of JavaScript, j counted from 0
Joint(frame, j) == frame[j + 1]

ANGLE_VISIBILITY == 50          \* a[3] < 0.5
HALF_TURN == 180                \* 180 / Math.PI, angles[0]/180

\* cos^2((k + 0.5) degrees) in ten-thousandths for k = 0..89, at index k + 1.
CosSqScale == 10000
CosSqAtHalfDegree == <<
    9999, 9993, 9981, 9963, 9938, 9908, 9872, 9830, 9782, 9728,
    9668, 9603, 9532, 9455, 9373, 9286, 9193, 9096, 8993, 8886,
    8774, 8657, 8536, 8410, 8280, 8147, 8009, 7868, 7723, 7575,
    7424, 7270, 7113, 6954, 6792, 6628, 6462, 6294, 6125, 5954,
    5782, 5609, 5436, 5262, 5087, 4913, 4738, 4564, 4391, 4218,
    4046, 3875, 3706, 3538, 3372, 3208, 3046, 2887, 2730, 2576,
    2425, 2277, 2132, 1991, 1853, 1720, 1590, 1464, 1343, 1226,
    1114, 1007, 904, 807, 714, 627, 545, 468, 397, 332,
    272, 218, 170, 128, 92, 62, 37, 19, 7, 1>>

\* Math.round(Math.acos(cosine) * (180 / Math.PI)) for the clamped cosine
\* dot / sqrt(magSq1 * magSq2): the number of k in 0..179 with
\* k + 0.5 <= angle, i.e. cosine <= cos(k + 0.5).  Exact at 0, 90 and 180
\* degrees; elsewhere exact as long as cos^2 is not within a ten-thousandth
\* of an entry of the table, which holds of the limbs used below.
RoundedDegrees(dot, magSq1, magSq2) ==
    LET m == magSq1 * magSq2
        AtLeast(k) ==
            IF k < 90
            THEN dot <= 0 \/ CosSqScale * dot * dot <= CosSqAtHalfDegree[k + 1] * m
            ELSE dot < 0 /\ CosSqScale * dot * dot >= CosSqAtHalfDegree[180 - k] * m
    IN  Cardinality({k \in 0..179 : AtLeast(k)})

\* The vectors of calculateAngle and what is computed from them.
AngleVectors(a, b, c) ==
    LET vector1 == <<a.x - b.x, a.y - b.y, a.z - b.z>>
        vector2 == <<c.x - b.x, c.y - b.y, c.z - b.z>>
    IN  [dotProduct |-> vector1[1] * vector2[1] + vector1[2] * vector2[2]
                           + vector1[3] * vector2[3],
         magSq1 |-> vector1[1] * vector1[1] + vector1[2] * vector1[2]
                       + vector1[3] * vector1[3],
         magSq2 |-> vector2[1] * vector2[1] + vector2[2] * vector2[2]
                       + vector2[3] * vector2[3]]

\* a[3] < 0.5 is false
PointSeen(p) == ~(p.visibility < ANGLE_VISIBILITY)

\* calculateAngle of Test2.jsx.  Coordinates are hundredths, so a
\* magnitude below 0.0001 is a magnitude of 0.
calculateAngle(a, b, c) ==
    IF \/ a = NoLandmark \/ b = NoLandmark \/ c = NoLandmark
       \/ a.x = 0 \/ b.x = 0 \/ c.x = 0
       \/ ~PointSeen(a) \/ ~PointSeen(b) \/ ~PointSeen(c)
    THEN 0
    ELSE LET v == AngleVectors(a, b, c)
         IN  IF v.magSq1 = 0 \/ v.magSq2 = 0
             THEN 0
             ELSE RoundedDegrees(v.dotProduct, v.magSq1, v.magSq2)

\* calculateAngle of App.jsx: no test of x, magnitude1 * magnitude2 === 0.
AppCalculateAngle(a, b, c) ==
    IF \/ a = NoLandmark \/ b = NoLandmark \/ c = NoLandmark
       \/ ~PointSeen(a) \/ ~PointSeen(b) \/ ~PointSeen(c)
    THEN 0
    ELSE LET v == AngleVectors(a, b, c)
         IN  IF v.magSq1 * v.magSq2 = 0
             THEN 0
             ELSE RoundedDegrees(v.dotProduct, v.magSq1, v.magSq2)

\* A frame that is null or undefined.
NoFrame == <<NoLandmark>>

\* !frame || frame.length < 33
FrameInvalid(frame) == frame = NoFrame \/ Len(frame) < LANDMARK_COUNT

\* computeJointAngles of Test2.jsx: left elbow, right elbow, left knee,
\* right knee.
computeJointAngles(frame) ==
    IF FrameInvalid(frame)
    THEN <<0, 0, 0, 0>>
    ELSE <<calculateAngle(Joint(frame, LEFT_SHOULDER), Joint(frame, LEFT_ELBOW),
                          Joint(frame, LEFT_WRIST)),
           calculateAngle(Joint(frame, RIGHT_SHOULDER), Joint(frame, RIGHT_ELBOW),
                          Joint(frame, RIGHT_WRIST)),
           calculateAngle(Joint(frame, LEFT_HIP), Joint(frame, LEFT_KNEE),
                          Joint(frame, LEFT_ANKLE)),
           calculateAngle(Joint(frame, RIGHT_HIP), Joint(frame, RIGHT_KNEE),
                          Joint(frame, RIGHT_ANKLE))>>

\* computeJointAngles of App.jsx
AppComputeJointAngles(frame) ==
    IF FrameInvalid(frame)
    THEN <<0, 0, 0, 0>>
    ELSE <<AppCalculateAngle(Joint(frame, LEFT_SHOULDER), Joint(frame, LEFT_ELBOW),
                             Joint(frame, LEFT_WRIST)),
           AppCalculateAngle(Joint(frame, RIGHT_SHOULDER), Joint(frame, RIGHT_ELBOW),
                             Joint(frame, RIGHT_WRIST)),
           AppCalculateAngle(Joint(frame, LEFT_HIP), Joint(frame, LEFT_KNEE),
                             Joint(frame, LEFT_ANKLE)),
           AppCalculateAngle(Joint(frame, RIGHT_HIP), Joint(frame, RIGHT_KNEE),
                             Joint(frame, RIGHT_ANKLE))>>

\* Limbs: the three points of an angle, outer, middle, outer.
StraightLimb == <<Pt(40, 30, 0, 90), Pt(40, 42, 0, 90), Pt(40, 54, 0, 90)>>   \* 180
SquareLimb   == <<Pt(40, 30, 0, 90), Pt(40, 42, 0, 90), Pt(52, 42, 0, 90)>>   \* 90
FoldedLimb   == <<Pt(40, 30, 0, 90), Pt(40, 42, 0, 90), Pt(40, 36, 0, 90)>>   \* 0
BentLimb     == <<Pt(40, 30, 0, 90), Pt(40, 42, 0, 90), Pt(50, 50, 3, 90)>>   \* 127
EdgeLimb     == <<Pt(0, 30, 0, 90), Pt(12, 30, 0, 90), Pt(12, 42, 0, 90)>>    \* x = 0
DimLimb      == <<Pt(40, 30, 0, 90), Pt(40, 42, 0, 40), Pt(52, 42, 0, 90)>>   \* 0.4
HalfSeenLimb == <<Pt(40, 30, 0, 50), Pt(40, 42, 0, 50), Pt(52, 42, 0, 50)>>   \* 0.5
ShutLimb     == <<Pt(40, 30, 0, 90), Pt(40, 30, 0, 90), Pt(52, 42, 0, 90)>>   \* a = b
ZeroLimb     == <<ZeroPt, ZeroPt, ZeroPt>>
Limbs == <<StraightLimb, SquareLimb, FoldedLimb, BentLimb, EdgeLimb, DimLimb,
           HalfSeenLimb, ShutLimb, ZeroLimb>>

\* The frame of 33 keypoints with the given arms and legs.
LimbFrame(leftArm, rightArm, leftLeg, rightLeg) ==
    [i \in 1..LANDMARK_COUNT |->
        LET j == i - 1
        IN  CASE j = LEFT_SHOULDER  -> leftArm[1]
              [] j = LEFT_ELBOW     -> leftArm[2]
              [] j = LEFT_WRIST     -> leftArm[3]
              [] j = RIGHT_SHOULDER -> rightArm[1]
              [] j = RIGHT_ELBOW    -> rightArm[2]
              [] j = RIGHT_WRIST    -> rightArm[3]
              [] j = LEFT_HIP       -> leftLeg[1]
              [] j = LEFT_KNEE      -> leftLeg[2]
              [] j = LEFT_ANKLE     -> leftLeg[3]
              [] j = RIGHT_HIP      -> rightLeg[1]
              [] j = RIGHT_KNEE     -> rightLeg[2]
              [] j = RIGHT_ANKLE    -> rightLeg[3]
              [] OTHER              -> Pt(50 + j, 10, 0 - 5, 80)]

(***************************************************************************)
(* Classifier input: the tensor built in prepareInputAndInvoke (Test2.jsx) *)
(* and in prepareModelInput (App.jsx).  A window is a sequence of frame    *)
(* numbers, FrameOf gives the keypoints of a frame.                        *)
(***************************************************************************)
MODEL_INPUT_SHAPE == <<1, 50, 33, 8>>
FeatureOffsets == 9             \* ways of laying the limbs over a window

\* A feature that is a quotient, kept exact.
Ratio(num, den) == [num |-> num, den |-> den]

\* The all-zero frame of the padding.
ZeroKeypoints == [i \in 1..LANDMARK_COUNT |-> ZeroPt]

\* The keypoints of frame number f; number 0 is the padding frame.
FrameOf(f) ==
    IF f = ZeroFrame
    THEN ZeroKeypoints
    ELSE LimbFrame(Limbs[(f % Len(Limbs)) + 1],
                   Limbs[((f \div 2) % Len(Limbs)) + 1],
                   Limbs[((2 * f) % Len(Limbs)) + 1],
                   Limbs[((f + 4) % Len(Limbs)) + 1])

RawAngle(angle) == Ratio(angle, 1)

\* angles[0]/180
NormalizedAngle(angle) == Ratio(angle, HALF_TURN)

\* augmentedFrame of Test2.jsx for one frame
augmentedFrame(frame) ==
    LET angles == computeJointAngles(frame)
    IN  [jointIdx \in 1..33 |->
            LET joint == frame[jointIdx]
            IN  <<joint.x, joint.y, joint.z, joint.visibility,
                  NormalizedAngle(angles[1]), NormalizedAngle(angles[2]),
                  NormalizedAngle(angles[3]), NormalizedAngle(angles[4])>>]

\* formattedJoints of App.jsx for one frame: the angles go in as computed.
formattedJoints(frame) ==
    LET angles == AppComputeJointAngles(frame)
    IN  [jointIdx \in 1..NUM_JOINTS |->
            LET joint == frame[jointIdx]
            IN  <<joint.x, joint.y, joint.z, joint.visibility,
                  angles[1], angles[2], angles[3], angles[4]>>]

\* tf.tensor(data).expandDims(0)
ExpandDims(data) ==
    [shape |-> <<1, Len(data), Len(data[1]), Len(data[1][1])>>, data |-> data]

\* The input tensor of prepareInputAndInvoke: one augmented frame for each
\* frameIdx < MAX_SEQUENCE_LENGTH of the queue.
inputTensor(queue) ==
    ExpandDims([frameIdx \in 1..MAX_SEQUENCE_LENGTH |->
                   augmentedFrame(FrameOf(queue[frameIdx]))])

\* prepareModelInput from its padding to the tensor it returns.
formattedTensor(window) ==
    LET prepared == prepareModelInput(window)
    IN  IF prepared.isNull
        THEN [shape |-> <<>>, data |-> <<>>]
        ELSE ExpandDims([frameIdx \in 1..T |->
                            formattedJoints(FrameOf(prepared.frames[frameIdx]))])

FeatureLengths == {1, 2, 49, MAX_SEQUENCE_LENGTH, 51, 99, T, 101, 150}

FeatureWindows ==
    {[i \in 1..n |-> i + p] : n \in FeatureLengths, p \in 0..(FeatureOffsets - 1)}

\* prepareInputAndInvoke builds its tensor from a queue of exactly 50 frames.
InputTensorCall ==
    /\ ~fnResult.done
    /\ Len(fnInput) = MAX_SEQUENCE_LENGTH
    /\ fnResult' = [done |-> TRUE, value |-> inputTensor(fnInput)]
    /\ handler' = "prepareInputAndInvoke"
    /\ UNCHANGED <<currentExercise, predictedExercise, confidence, switchCounter,
                   exerciseCount, lastCall, streak, fnInput>>
    /\ UNCHANGED <<squatVars, standingVars, windowVars, classifierVars>>
    /\ UNCHANGED loopVars

FormattedTensorCall ==
    /\ ~fnResult.done
    /\ fnResult' = [done |-> TRUE, value |-> formattedTensor(fnInput)]
    /\ handler' = "prepareModelInput"
    /\ UNCHANGED <<currentExercise, predictedExercise, confidence, switchCounter,
                   exerciseCount, lastCall, streak, fnInput>>
    /\ UNCHANGED <<squatVars, standingVars, windowVars, classifierVars>>
    /\ UNCHANGED loopVars

InitFeatures ==
    /\ InitExercise
    /\ InitSquat
    /\ InitStanding
    /\ InitWindow
    /\ InitClassifier
    /\ fnInput \in FeatureWindows
    /\ fnResult = NotApplied
    /\ InitLoop

NextFeatures == InputTensorCall \/ FormattedTensorCall

SpecFeatures == InitFeatures /\ [][NextFeatures]_vars

\* The frame numbers a tensor is built from, and the angles of a frame, in
\* the function that has run.
AssembledFrames ==
    IF handler = "prepareInputAndInvoke"
    THEN fnInput
    ELSE prepareModelInput(fnInput).frames

AnglesOf(frame) ==
    IF handler = "prepareInputAndInvoke"
    THEN computeJointAngles(frame)
    ELSE AppComputeJointAngles(frame)

\* A feature holds the value angle / 180.
IsAngleOver180(feature, angle) ==
    /\ DOMAIN feature = {"num", "den"}
    /\ feature.den > 0
    /\ feature.num * HALF_TURN = angle * feature.den
    /\ 0 <= feature.num /\ feature.num <= feature.den

\* The features of joint jointIdx of frame frameIdx are the joint's
\* x, y, z, visibility and the frame's four angles over 180.
FeaturesAsClaimed(frameIdx, jointIdx) ==
    LET frame == FrameOf(AssembledFrames[frameIdx])
        angles == AnglesOf(frame)
        features == fnResult.value.data[frameIdx][jointIdx]
    IN  /\ Len(features) = 8
        /\ features[1] = frame[jointIdx].x
        /\ features[2] = frame[jointIdx].y
        /\ features[3] = frame[jointIdx].z
        /\ features[4] = frame[jointIdx].visibility
        /\ \A k \in 1..4 : IsAngleOver180(features[4 + k], angles[k])
        /\ \A k \in 5..8 : features[k] = fnResult.value.data[frameIdx][1][k]

TensorAsClaimed ==
    /\ fnResult.value.shape = MODEL_INPUT_SHAPE
    /\ \A frameIdx \in 1..Len(fnResult.value.data) :
          \A jointIdx \in 1..33 : FeaturesAsClaimed(frameIdx, jointIdx)

\* C21: every joint of every frame of the classifier input carries
\* [x, y, z, visibility, a0/180, a1/180, a2/180, a3/180], a0..a3 being the
\* frame's four joint angles: features 4 to 7 are the same for all 33
\* joints of a frame and lie in [0, 1], and the shape is [1, N, 33, 8] with
\* N the frame count the model expects.
C21_FeaturesAreNormalized ==
    fnResult.done /\ handler \in {"prepareInputAndInvoke", "prepareModelInput"}
        => TensorAsClaimed

\* What holds of the code: the tensor of Test2.jsx is as claimed.
BaselineFeaturesAreNormalized ==
    fnResult.done /\ handler = "prepareInputAndInvoke" => TensorAsClaimed

\* The tensor of App.jsx has T frames and carries the angles in degrees.
AppFeaturesAreDegrees ==
    fnResult.done /\ handler = "prepareModelInput" =>
        /\ fnResult.value.shape = <<1, T, 33, 8>>
        /\ \A frameIdx \in 1..T : \A k \in 1..4 :
              fnResult.value.data[frameIdx][1][4 + k]
                  = AppComputeJointAngles(FrameOf(AssembledFrames[frameIdx]))[k]

(***************************************************************************)
(* computeJointAngles applied to frames (specification SpecAngles)         *)
(***************************************************************************)
\* A limb whose outer point is absent from the frame.
GapLimb == <<NoLandmark, Pt(40, 42, 0, 90), Pt(52, 42, 0, 90)>>

AngleLimbs == {Limbs[i] : i \in 1..Len(Limbs)} \cup {GapLimb}

\* A frame that ends before its last keypoint.
CutFrame == SubSeq(LimbFrame(StraightLimb, StraightLimb, StraightLimb, StraightLimb),
                   1, LANDMARK_COUNT - 1)

AngleFrames ==
    {LimbFrame(la, ra, ll, rl) : la \in AngleLimbs, ra \in AngleLimbs,
                                 ll \in AngleLimbs, rl \in AngleLimbs}
    \cup {NoFrame, CutFrame}

ComputeJointAnglesCall ==
    /\ ~fnResult.done
    /\ fnResult' = [done |-> TRUE, value |-> computeJointAngles(fnInput)]
    /\ handler' = "Test2.computeJointAngles"
    /\ UNCHANGED <<currentExercise, predictedExercise, confidence, switchCounter,
                   exerciseCount, lastCall, streak, fnInput>>
    /\ UNCHANGED <<squatVars, standingVars, windowVars, classifierVars>>
    /\ UNCHANGED loopVars

AppComputeJointAnglesCall ==
    /\ ~fnResult.done
    /\ fnResult' = [done |-> TRUE, value |-> AppComputeJointAngles(fnInput)]
    /\ handler' = "App.computeJointAngles"
    /\ UNCHANGED <<currentExercise, predictedExercise, confidence, switchCounter,
                   exerciseCount, lastCall, streak, fnInput>>
    /\ UNCHANGED <<squatVars, standingVars, windowVars, classifierVars>>
    /\ UNCHANGED loopVars

InitAngles ==
    /\ InitExercise
    /\ InitSquat
    /\ InitStanding
    /\ InitWindow
    /\ InitClassifier
    /\ fnInput \in AngleFrames
    /\ fnResult = NotApplied
    /\ InitLoop

NextAngles == ComputeJointAnglesCall \/ AppComputeJointAnglesCall

SpecAngles == InitAngles /\ [][NextAngles]_vars

\* computeJointAngles has returned.
AnglesComputed ==
    fnResult.done /\ handler \in {"Test2.computeJointAngles", "App.computeJointAngles"}

\* The three points of the i-th angle: elbows, then knees.
AngleJoints ==
    <<<<LEFT_SHOULDER, LEFT_ELBOW, LEFT_WRIST>>, <<RIGHT_SHOULDER, RIGHT_ELBOW, RIGHT_WRIST>>,
      <<LEFT_HIP, LEFT_KNEE, LEFT_ANKLE>>, <<RIGHT_HIP, RIGHT_KNEE, RIGHT_ANKLE>>>>

AnglePoint(i, k) == Joint(fnInput, AngleJoints[i][k])

\* A point counts as missing: absent, x equal to 0, or visibility below 0.5.
PointMissing(p) == p = NoLandmark \/ p.x = 0 \/ p.visibility < ANGLE_VISIBILITY

\* One of the two vectors of the i-th angle has no length.
VectorVanishes(i) ==
    LET v == AngleVectors(AnglePoint(i, 1), AnglePoint(i, 2), AnglePoint(i, 3))
    IN  v.magSq1 = 0 \/ v.magSq2 = 0

\* The i-th angle must be 0 by the rule of the missing point or the
\* vanishing vector.
MustBeZero(i) ==
    \/ \E k \in 1..3 : PointMissing(AnglePoint(i, k))
    \/ VectorVanishes(i)

AnglesInRange ==
    /\ Len(fnResult.value) = 4
    /\ \A i \in 1..4 : fnResult.value[i] \in 0..HALF_TURN

AnglesZeroWhereMissing ==
    FrameInvalid(fnInput) \/ \A i \in 1..4 : MustBeZero(i) => fnResult.value[i] = 0

\* C24: computeJointAngles never raises; each of its four angles is an
\* integer between 0 and 180, and an angle is 0 whenever one of its three
\* points is missing (x equal to 0 or visibility below 0.5) or one of its
\* two vectors has a magnitude below 0.0001.
C24_AnglesBoundedAndZeroIfMissing ==
    AnglesComputed => AnglesInRange /\ AnglesZeroWhereMissing

\* What the code holds to: computeJointAngles of Test2.jsx is as described;
\* the one of App.jsx stays in range and is 0 for an absent or barely
\* visible point and for a vanishing vector, but has no test of x.
BaselineAnglesAsClaimed ==
    (fnResult.done /\ handler = "Test2.computeJointAngles") =>
        AnglesInRange /\ AnglesZeroWhereMissing

AppAnglesInRange ==
    (fnResult.done /\ handler = "App.computeJointAngles") =>
        /\ AnglesInRange
        /\ FrameInvalid(fnInput) \/
              \A i \in 1..4 :
                 (\/ \E k \in 1..3 : \/ AnglePoint(i, k) = NoLandmark
                                     \/ ~PointSeen(AnglePoint(i, k))
                  \/ VectorVanishes(i)) => fnResult.value[i] = 0

\* App.jsx computed a right angle at a visible elbow whose shoulder has x = 0.
AppAngleFromEdgePoint ==
    /\ fnResult.done
    /\ handler = "App.computeJointAngles"
    /\ ~FrameInvalid(fnInput)
    /\ AnglePoint(1, 1) = EdgeLimb[1]
    /\ fnResult.value[1] = 90

(***************************************************************************)
(* The frame loop: predictWebcam of Detection.jsx (with Test2.jsx behind   *)
(* its callback) and of src/unnamed/part_001, rescheduled through          *)
(* requestAnimationFrame.  A window entry is the number of its video frame.*)
(***************************************************************************)
MaxLoops == 2                   \* loops followed at a time
FaultFrames == 3                \* faults strike the first frames, or a full window
LoopFrames == 8                 \* video frames followed in the Detection loop
DETECTION_FRAMES == 3           \* frameCountRef.current < 3
FRAME_CYCLE == 4                \* (frameCountRef.current + 1) % 4

LoopIds == 1..MaxLoops

\* predictWebcam started once more: a loop that is not yet there.
NewLoop == CHOOSE id \in LoopIds : id \notin loops /\ \A other \in LoopIds \ loops : id <= other

\* Video frames followed: a few where no classifier runs (Test2's model is
\* left unloaded here), a full window and some more where one does.
MaxVideoFrames ==
    IF variant = "baseline" THEN LoopFrames ELSE SequenceLength + ExtraFrames

FaultAllowed == videoFrame <= FaultFrames \/ videoFrame > SequenceLength

\* The browser shows the next video frame; every callback requested in
\* the frame before has run.
AnimationFrame ==
    /\ ran = loops
    /\ videoFrame < MaxVideoFrames
    /\ videoFrame' = videoFrame + 1
    /\ ran' = {}
    /\ now' = now + FrameMs
    /\ handler' = "requestAnimationFrame"
    /\ UNCHANGED <<loops, webcamRunning, renderPending, starting, fault, errorCount>>
    /\ UNCHANGED <<arbiterVars, exerciseCount, squatState, currentPose, frameCount,
                   variant, lastFrame, script>>
    /\ UNCHANGED <<standingVars, pipelineVars>>

\* enableCam to the end of onloadedmetadata: it does nothing while
\* webcamRunningRef.current is set; otherwise the camera plays,
\* webcamRunningRef.current = true and predictWebcam is started.
CameraStarted ==
    /\ starting
    /\ ~webcamRunning
    /\ Cardinality(loops) < MaxLoops
    /\ starting' = FALSE
    /\ webcamRunning' = TRUE
    /\ loops' = loops \cup {NewLoop}
    /\ handler' = "enableCam"
    /\ UNCHANGED <<ran, videoFrame, renderPending, fault, errorCount>>
    /\ UNCHANGED <<arbiterVars, exerciseCount, squatVars>>
    /\ UNCHANGED <<standingVars, pipelineVars>>

\* Test2 renders again and hands Detection a new handlePoseLandmarksReceived:
\* the effect with [onPoseLandmarksReceived] is cleaned up and run again.
\* The cleanup stops the tracks and clears webcamRunningRef.current; no
\* pending requestAnimationFrame callback is cancelled.
EffectRerun ==
    /\ variant = "baseline"
    /\ renderPending
    /\ renderPending' = FALSE
    /\ webcamRunning' = FALSE
    /\ starting' = TRUE
    /\ handler' = "effect cleanup"
    /\ UNCHANGED <<loops, ran, videoFrame, fault, errorCount>>
    /\ UNCHANGED <<arbiterVars, exerciseCount, squatVars>>
    /\ UNCHANGED <<standingVars, pipelineVars>>

DetectionOutcomes ==
    {"landmarks"} \cup
    (IF FaultAllowed THEN {"detectionError", "noLandmarks", "callbackError", "notReady"}
     ELSE {})

\* predictWebcam of Detection.jsx, one call of loop.  Every exit leads to
\* requestAnimationFrame(predictWebcam).  The callback is Test2's
\* handlePoseLandmarksReceived, which sets landmarksDetected (a render of
\* Test2 when it was false) and calls window.onPoseLandmarksReceived.
DetectionPredictWebcam(loop, outcome) ==
    /\ variant = "baseline"
    /\ loop \in loops \ ran
    /\ ran' = ran \cup {loop}
    /\ loops' = loops
    /\ handler' = "predictWebcam"
    /\ IF ~webcamRunning \/ outcome = "notReady"
       THEN /\ fault' = (IF outcome = "notReady" THEN "notReady" ELSE "none")
            /\ UNCHANGED <<frameCount, errorCount, renderPending, windowVars,
                           lastPredictionTime, pending, predictLog>>
       ELSE /\ frameCount' = (frameCount + 1) % FRAME_CYCLE
            /\ IF ~(frameCount' < DETECTION_FRAMES)
               THEN /\ fault' = "none"
                    /\ UNCHANGED <<errorCount, renderPending, windowVars,
                                   lastPredictionTime, pending, predictLog>>
               ELSE CASE outcome = "detectionError" ->
                           /\ errorCount' = errorCount + 1
                           /\ fault' = "detection"
                           /\ UNCHANGED <<renderPending, windowVars, lastPredictionTime,
                                          pending, predictLog>>
                      [] outcome = "noLandmarks" ->
                           /\ errorCount' = 0
                           /\ fault' = "noLandmarks"
                           /\ UNCHANGED <<renderPending, windowVars, lastPredictionTime,
                                          pending, predictLog>>
                      [] outcome = "callbackError" ->
                           /\ errorCount' = 0
                           /\ fault' = "callback"
                           /\ UNCHANGED <<renderPending, windowVars, lastPredictionTime,
                                          pending, predictLog>>
                      [] OTHER ->
                           /\ errorCount' = 0
                           /\ fault' = "none"
                           /\ renderPending' = (renderPending \/ framesSeen = 0)
                           /\ LandmarksReceived(videoFrame, PageLoadEpoch + now)
    /\ UNCHANGED <<webcamRunning, videoFrame, starting>>
    /\ UNCHANGED <<arbiterVars, exerciseCount, squatState, currentPose, now, variant,
                   lastFrame, script>>
    /\ UNCHANGED <<modelLoaded, exerciseClass, exerciseConfidence, lastOutput>>
    /\ UNCHANGED <<standingVars, functionVars>>

LandmarkerOutcomes ==
    {"landmarks"} \cup (IF FaultAllowed THEN {"detectionError", "noLandmarks"} ELSE {})

\* Standing frames, and squatting ones right after the calibration.
LoopFrameInputs ==
    IF videoFrame > CALIBRATION_FRAMES /\ videoFrame <= CALIBRATION_FRAMES + ExtraFrames
    THEN {Frame(UprightBody), Frame(LowBody)}
    ELSE {Frame(UprightBody)}

\* predictWebcam of src/unnamed/part_001, one call of loop.  Nothing
\* catches what detectForVideo throws: the async function ends there and
\* its last line, requestAnimationFrame(predictWebcam), is not reached.
LandmarkerPredictWebcam(loop, outcome, results) ==
    /\ variant = "landmarker"
    /\ loop \in loops \ ran
    /\ exerciseCount < MaxReps
    /\ predictLog.count < MaxPredicts
    /\ handler' = "predictWebcam"
    /\ CASE outcome = "detectionError" ->
              /\ loops' = loops \ {loop}
              /\ ran' = ran
              /\ fault' = "detection"
              /\ UNCHANGED <<windowVars, pending, predictLog, squatState,
                             exerciseCount, lastFrame>>
         [] outcome = "noLandmarks" ->
              /\ loops' = loops
              /\ ran' = ran \cup {loop}
              /\ fault' = "noLandmarks"
              /\ UNCHANGED <<windowVars, pending, predictLog, squatState,
                             exerciseCount, lastFrame>>
         [] OTHER ->
              /\ loops' = loops
              /\ ran' = ran \cup {loop}
              /\ fault' = "none"
              /\ lastFrame' = results
              /\ WindowPart(videoFrame, now)
              /\ SquatPart(results)
    /\ UNCHANGED <<webcamRunning, videoFrame, renderPending, starting, errorCount>>
    /\ UNCHANGED <<arbiterVars, currentPose, frameCount, now, variant, script>>
    /\ UNCHANGED <<modelLoaded, lastPredictionTime, exerciseClass, exerciseConfidence,
                   lastOutput>>
    /\ UNCHANGED <<standingVars, functionVars>>

\* runExerciseClassification when predict or output.data() rejects: the
\* catch logs the error.
ClassificationFailed ==
    /\ variant = "landmarker"
    /\ pending # <<>>
    /\ FaultAllowed
    /\ pending' = Tail(pending)
    /\ handler' = "runExerciseClassification.catch"
    /\ fault' = "inference"
    /\ UNCHANGED <<loops, ran, webcamRunning, videoFrame, renderPending, starting,
                   errorCount>>
    /\ UNCHANGED <<arbiterVars, exerciseCount, squatVars>>
    /\ UNCHANGED <<windowVars, modelLoaded, lastPredictionTime, exerciseClass,
                   exerciseConfidence, predictLog, lastOutput>>
    /\ UNCHANGED <<standingVars, functionVars>>

LoopOutputs == {<<5, 5, 10, 10, 70>>}

InitLoopRun ==
    /\ InitExercise
    /\ squatState = InitSquatState
    /\ currentPose = "No pose detected"
    /\ frameCount = 0
    /\ now = 0
    /\ variant \in {"baseline", "landmarker"}
    /\ lastFrame = NullLandmarks
    /\ script = "off"
    /\ InitStanding
    /\ InitPipeline
    /\ InitLoop

NextLoop ==
    \/ AnimationFrame
    \/ CameraStarted
    \/ EffectRerun
    \/ \E loop \in LoopIds, outcome \in DetectionOutcomes :
           DetectionPredictWebcam(loop, outcome)
    \/ \E loop \in LoopIds, outcome \in LandmarkerOutcomes, results \in LoopFrameInputs :
           LandmarkerPredictWebcam(loop, outcome, results)
    \/ /\ variant = "landmarker"
       /\ videoFrame = 0 \/ Len(poseSequence) + 1 >= SequenceLength
       /\ ModelLoads
    \/ \E values \in LoopOutputs : ClassificationResolved(values)
    \/ ClassificationFailed

SpecLoop == InitLoopRun /\ [][NextLoop]_vars

\* A frame callback, or the inference it started, has just failed.
FaultStep ==
    /\ handler' \in {"predictWebcam", "runExerciseClassification.catch"}
    /\ fault' \in {"detection", "noLandmarks", "callback", "inference"}

PipelineStateKept ==
    /\ poseSequence' = poseSequence
    /\ squatState' = squatState
    /\ exerciseCount' = exerciseCount
    /\ currentExercise' = currentExercise
    /\ predictedExercise' = predictedExercise
    /\ confidence' = confidence
    /\ switchCounter' = switchCounter
    /\ exerciseClass' = exerciseClass
    /\ exerciseConfidence' = exerciseConfidence
    /\ lastPredictionTime' = lastPredictionTime

\* C22: the frame loop never stops: after a failure in one frame (detection
\* exception, no landmarks, exception in the callback or in inference) the
\* pipeline state is as it was and every loop still has its next frame
\* scheduled.
C22_LoopSurvivesFailures ==
    [][FaultStep => PipelineStateKept /\ loops' = loops]_vars

\* What holds of the code: Detection.jsx contains every failure, and in
\* part_001 a failure never touches the pipeline state.
DetectionLoopSurvivesFailures ==
    [][FaultStep /\ variant = "baseline" => PipelineStateKept /\ loops' = loops]_vars

FailureKeepsPipelineState == [][FaultStep => PipelineStateKept]_vars

LandmarkerLoopStopped ==
    /\ variant = "landmarker"
    /\ fault = "detection"
    /\ loops = {}
    /\ ~starting

(***************************************************************************)
(* Claims about inferences in flight (specification SpecPipeline)          *)
(***************************************************************************)
\* runExerciseClassification of part_001 resumes after its awaits.
ClassificationResumes ==
    /\ variant = "landmarker"
    /\ pending # <<>>
    /\ pending' = Tail(pending)
    /\ handler' = "runExerciseClassification"

\* The landmarks of the frame that was last in the window when the
\* inference now resuming was issued, and of the one that is last by now.
FrameAtCall == Landmarks(NUM_JOINTS, FramePose(Head(pending).last))
FrameAtResume == Landmarks(NUM_JOINTS, FramePose(poseSequence[Len(poseSequence)]))

\* C25: an inference uses only the data as it was when the call was issued:
\* frames appended while the call is pending change neither the window that
\* is classified nor the landmark frame used for the standing check.
C25_InferenceUsesDataOfItsCall ==
    [][ClassificationResumes =>
          /\ Head(pending).length = T
          /\ lastCall'.landmarks = FrameAtCall]_vars

\* What the code holds to: the window is taken when the call is issued, the
\* standing check reads the frame that is last when the call resumes.
StandingCheckReadsNewestFrame ==
    [][ClassificationResumes =>
          /\ Head(pending).length = T
          /\ lastCall'.landmarks = FrameAtResume]_vars

\* A call issued on a squat frame resumed after an upright frame had been
\* appended, and was taken for standing.
StandingCheckOnLaterFrame ==
    /\ variant = "landmarker"
    /\ handler = "runExerciseClassification"
    /\ lastCall # NoCall
    /\ lastCall.standing
    /\ lastCall.landmarks = Landmarks(NUM_JOINTS, UprightBody)
    /\ poseSequence # <<>>
    /\ poseSequence[Len(poseSequence)] = T + 2
    /\ Len(pending) = 2

\* C29: in Test2.jsx at most one inference is pending: between a call of
\* model.predict and the completion of its output.data() callback no
\* further model.predict is made.
C29_NoPredictWhilePending ==
    [][(variant = "baseline" /\ PredictCalled) => pending = <<>>]_vars

\* What the code holds to: inferences in flight were issued at least a
\* throttle interval apart.
PendingIssuedThrottled ==
    variant = "baseline" =>
        \A i \in 1..Len(pending) : \A j \in (i + 1)..Len(pending) :
            pending[j].at - pending[i].at >= THROTTLE_MS

\* A second model.predict was made 200 ms after the first, whose
\* output.data() has not resolved.
SecondPredictWhilePending ==
    /\ variant = "baseline"
    /\ handler = "onPoseLandmarksReceived"
    /\ Len(pending) = 2
    /\ pending[2].at - pending[1].at = THROTTLE_MS
    /\ predictLog.count = 2

(***************************************************************************)
(* Test2.jsx: inference attempts and their failures (SpecInference)        *)
(***************************************************************************)
\* onPoseLandmarksReceived for a frame on which the tensor construction or
\* model.predict throws inside prepareInputAndInvoke: the catch clears the
\* queue.  The throttle has let the attempt through.
PredictThrows(gap) ==
    /\ variant = "baseline"
    /\ framesSeen < MaxFrames
    /\ predictLog.count < MaxPredicts
    /\ LET clock == PageLoadEpoch + now + gap
           queue == Pushed(poseSequence, framesSeen + 1, MAX_SEQUENCE_LENGTH)
       IN  /\ Len(queue) = MAX_SEQUENCE_LENGTH
           /\ ModelReady(modelLoaded)
           /\ ~(lastPredictionTime # 0 /\ clock - lastPredictionTime < THROTTLE_MS)
           /\ lastPredictionTime' = clock
           /\ predictLog' = [count |-> predictLog.count + 1, last |-> clock - PageLoadEpoch]
    /\ now' = now + gap
    /\ handler' = "prepareInputAndInvoke.catch"
    /\ poseSequence' = <<>>
    /\ framesSeen' = framesSeen + 1
    /\ sinceClear' = 0
    /\ UNCHANGED <<modelLoaded, pending, exerciseClass, exerciseConfidence, lastOutput,
                   variant>>
    /\ UNCHANGED <<arbiterVars, repCounterVars, standingVars, functionVars>>
    /\ UNCHANGED loopVars

\* output.data() rejects: the promise has no catch, its then-callback does
\* not run.
OutputRejected ==
    /\ variant = "baseline"
    /\ pending # <<>>
    /\ handler' = "output.data.rejected"
    /\ pending' = Tail(pending)
    /\ UNCHANGED <<windowVars, modelLoaded, lastPredictionTime, exerciseClass,
                   exerciseConfidence, predictLog, lastOutput, now, variant>>
    /\ UNCHANGED <<arbiterVars, repCounterVars, standingVars, functionVars>>
    /\ UNCHANGED loopVars

InferenceOutputs == {<<70, 10, 10, 10>>}

InitInference ==
    /\ InitPipelineRun
    /\ variant = "baseline"

NextInference ==
    \/ \E cb \in FrameCallbacks : OnPoseLandmarksReceived(cb[1], cb[2])
    \/ \E cb \in FrameCallbacks : PredictThrows(cb[1])
    \/ \E outputData \in InferenceOutputs : InferenceResolved(outputData)
    \/ OutputRejected
    \/ ModelLoads

SpecInference == InitInference /\ [][NextInference]_vars

\* An inference attempt of Test2.jsx ends in this step: its prediction
\* completes, or an error occurs at the call or in its result.
PredictionCompletes ==
    handler' = "output.data.then" /\ pending # <<>> /\ pending' = Tail(pending)

CallThrows == handler' = "prepareInputAndInvoke.catch" /\ PredictCalled

ResultRejected ==
    handler' = "output.data.rejected" /\ pending # <<>> /\ pending' = Tail(pending)

AttemptEnds == PredictionCompletes \/ CallThrows \/ ResultRejected

\* model.predict is called and returns while an earlier attempt is in
\* flight.
NextAttemptStarts ==
    /\ PredictCalled
    /\ handler' = "onPoseLandmarksReceived"
    /\ pending # <<>>

\* The window of the call holds only frames appended after the attempt in
\* flight was made.
WindowCollectedAfter == Head(poseSequence') > pending[Len(pending)].last

\* C26: after every inference attempt of Test2.jsx, whether its prediction
\* completes or an error occurs, the queue is reset to empty, so that the
\* pipeline never stays on a full window and the next classification is
\* made from N frames that were all collected after the attempt.
C26_QueueClearedAfterEveryAttempt ==
    [][/\ AttemptEnds => poseSequence' = <<>>
       /\ NextAttemptStarts => WindowCollectedAfter]_vars

\* What the code holds to: the queue is emptied when the prediction
\* completes and when the call throws.
QueueClearedOnCompletionAndCatch ==
    [][PredictionCompletes \/ CallThrows => poseSequence' = <<>>]_vars

\* Two attempts in flight on windows that share 46 frames.
OverlappingAttempts ==
    /\ variant = "baseline"
    /\ Len(pending) = 2
    /\ pending[1].last = MAX_SEQUENCE_LENGTH
    /\ pending[2].first = 5

(***************************************************************************)
(* Arbiter and rep counter of src/unnamed/part_001 side by side            *)
(* (specification SpecSession)                                             *)
(***************************************************************************)
\* Frames of a session: the user stands while the counter calibrates, then
\* stands or squats.
SessionFrameInputs ==
    IF squatState.isCalibrating
    THEN {Frame(UprightBody)}
    ELSE {Frame(UprightBody), Frame(LowBody)}

\* What the classifier returns in a session, and the frame its standing
\* check reads.
SessionConfidences == {confidenceThreshold, 80}
SessionRecentFrames == {Landmarks(NUM_JOINTS, b) : b \in {UprightBody, SquatBody}}

InitSession ==
    /\ InitRepCounter
    /\ variant = "landmarker"

\* A classification resumes only for a window of T frames, and the counter
\* has left its calibration after CALIBRATION_FRAMES of them.
NextSession ==
    \/ \E results \in SessionFrameInputs : PredictWebcam(results)
    \/ Tick
    \/ /\ ~squatState.isCalibrating
       /\ \E classIdx \in ClassInputs, conf \in SessionConfidences, lm \in SessionRecentFrames :
              RunExerciseClassification(classIdx, conf, lm)

SpecSession == InitSession /\ [][NextSession]_vars

\* The counter completes a rep in this step: InRep to Standing in a frame.
RepStep ==
    /\ handler' = "predictWebcam"
    /\ squatState.isInSquat
    /\ ~squatState'.isInSquat
    /\ exerciseCount' = exerciseCount + 1

\* The arbiter commits a switch in this step.
CommitStep ==
    /\ handler' = "runExerciseClassification"
    /\ lastCall'.counterBefore = switchFrames - 1
    /\ switchCounter' = 0
    /\ currentExercise' = ClassName(lastCall'.predClass)
    /\ exerciseCount' = 0

\* A call of the arbiter is made in this step.
ArbiterStep == handler' = "runExerciseClassification" /\ squatState' = squatState

ExerciseStateSteps ==
    /\ exerciseCount' # exerciseCount => RepStep \/ CommitStep
    /\ (currentExercise' # currentExercise \/ switchCounter' # switchCounter) => ArbiterStep

ExerciseStateAtStart ==
    currentExercise = Null /\ switchCounter = 0 /\ exerciseCount = 0

\* C27: the rep count changes only by +1 when the counter goes from InRep to
\* Standing, or by a reset to 0 when the arbiter commits a switch; between
\* two commits it never decreases and grows by at most 1 per frame;
\* currentExercise and switchCounter are changed by the arbiter only; the
\* state starts as (null, 0, 0).
C27_ExerciseStateChanges ==
    ExerciseStateAtStart /\ [][ExerciseStateSteps]_vars

\* A commit has reset a count of completed reps.
C27_Witness ==
    /\ variant = "landmarker"
    /\ handler = "runExerciseClassification"
    /\ currentExercise # Null
    /\ lastCall.counterBefore = switchFrames - 1
    /\ lastCall.countBefore > 0
    /\ exerciseCount = 0
    /\ ~squatState.isCalibrating
    /\ squatState.lastSquatTime > 0

(***************************************************************************)
(* Claims about the number of frame loops (specification SpecLoop)         *)
(***************************************************************************)
\* No video frame is in the window twice: the window's entries are the
\* numbers of the video frames delivered.
NoFrameTwice ==
    \A i \in 1..Len(poseSequence) : \A j \in (i + 1)..Len(poseSequence) :
        poseSequence[i] # poseSequence[j]

\* C28: at most one predictWebcam loop delivers frames: neither a re-run of
\* Detection's effect (cleanup and new initialisation, as when the
\* onPoseLandmarksReceived prop changes with a render of the parent) nor a
\* camera restart leaves two loops active, so that no video frame is
\* appended twice.
C28_SingleFrameLoop == Cardinality(loops) <= 1 /\ NoFrameTwice

\* What the code holds to: the loop of part_001, whose effect runs once,
\* stays the only one.
LandmarkerSingleFrameLoop ==
    variant = "landmarker" => Cardinality(loops) <= 1 /\ NoFrameTwice

\* After the effect of Detection ran again, the loop of its first run and
\* the loop of the second have both delivered the same video frame.
FrameDeliveredTwice ==
    /\ variant = "baseline"
    /\ Cardinality(loops) = 2
    /\ webcamRunning
    /\ ran = loops
    /\ Len(poseSequence) >= 2
    /\ poseSequence[Len(poseSequence)] = videoFrame
    /\ poseSequence[Len(poseSequence) - 1] = videoFrame

(***************************************************************************)
(* The minimum interval between reps (specification SpecSquat)             *)
(***************************************************************************)
\* A frame reaches the counter, which is in InRep, with a hip drop below
\* the up-threshold.
RisingFrameInRep ==
    /\ FrameStep
    /\ Accepted(lastFrame')
    /\ ~squatState.isCalibrating
    /\ squatState.isInSquat
    /\ FrameDropUnder(UpThreshold2)

=============================================================================
